---- MODULE Spec2Model ----
(***************************************************************************)
(* Model of the rendering core of vr-glasses-app: the GLRenderer class     *)
(* (src/src/gl/renderer.ts), the VRSettings record (src/src/types.ts) and  *)
(* the browser objects it drives (the requestAnimationFrame queue, the     *)
(* canvas, the video element, the WebGL context).                          *)
(*                                                                         *)
(* Numbers that are floats in the source are kept in fixed point with unit *)
(* 1/1000 (1.0 is 1000, 0.02 is 20).  A value that is NaN in the source is *)
(* the record NaN below.                                                   *)
(***************************************************************************)
EXTENDS Integers, Sequences, FiniteSets, TLC

\* ------------------------------------------------------------------ bounds
\* requestAnimationFrame handles the browser hands out are 1..MaxHandle
MaxHandle == 4
\* how deep start() may re-enter render from inside the settings accessor
MaxNest == 1
\* client sizes of the canvas element tried by the layout specification
MaxClient == 6

\* ------------------------------------------------------------- the values
V(n) == [nan |-> FALSE, v |-> n]
NaN == [nan |-> TRUE, v |-> 0]

\* x / d and x * 0.1 on a JavaScript number: NaN stays NaN
DivBy(x, d) == IF x.nan THEN NaN ELSE V(x.v \div d)

Min2(a, b) == IF a <= b THEN a ELSE b
Max2(a, b) == IF a >= b THEN a ELSE b
MinOf(S) == CHOOSE x \in S : \A y \in S : x <= y

\* ------------------------------------------------------------ types.ts
Fields ==
  {"leftOffsetX", "leftOffsetY", "rightOffsetX", "rightOffsetY", "scale",
   "separation", "contrast", "brightness", "gamma", "highlights", "shadows",
   "temperature", "distortionEnabled", "k1", "k2", "sphereStrength",
   "sphereDiameter", "filterMode", "magnifierEnabled", "magnifierZoom",
   "magnifierSize", "calibration"}

defaultSettings ==
  [leftOffsetX |-> 0, leftOffsetY |-> 0, rightOffsetX |-> 0, rightOffsetY |-> 0,
   scale |-> 1000, separation |-> 20, contrast |-> 1000, brightness |-> 0,
   gamma |-> 1000, highlights |-> 0, shadows |-> 0, temperature |-> 0,
   distortionEnabled |-> TRUE, k1 |-> 35000, k2 |-> 20000,
   sphereStrength |-> 0, sphereDiameter |-> 100000, filterMode |-> "none",
   magnifierEnabled |-> FALSE, magnifierZoom |-> 1600, magnifierSize |-> 440,
   calibration |-> FALSE]

\* a second full snapshot, every field away from its default
tunedSettings ==
  [leftOffsetX |-> 10, leftOffsetY |-> -10, rightOffsetX |-> -20, rightOffsetY |-> 30,
   scale |-> 2000, separation |-> 50, contrast |-> 1200, brightness |-> 100,
   gamma |-> 2000, highlights |-> 200, shadows |-> 300, temperature |-> 400,
   distortionEnabled |-> FALSE, k1 |-> 50000, k2 |-> 10000,
   sphereStrength |-> 40000, sphereDiameter |-> 50000, filterMode |-> "edge",
   magnifierEnabled |-> TRUE, magnifierZoom |-> 2000, magnifierSize |-> 300,
   calibration |-> TRUE]

\* the snapshot s without the field f (the caller omitted it)
Omit(s, f) == [g \in (DOMAIN s) \ {f} |-> s[g]]
\* the snapshot s with the field f set to x
WithField(s, f, x) == [g \in (DOMAIN s) \cup {f} |-> IF g = f THEN x ELSE s[g]]

\* reading settings.f where a number is expected: undefined converts to NaN
NumField(s, f) == IF f \in DOMAIN s THEN V(s[f]) ELSE NaN
\* settings.f ? 1 : 0 : undefined is falsy
FlagField(s, f) == IF f \in DOMAIN s /\ s[f] THEN V(1000) ELSE V(0)


\* --------------------------------------------------------------- the state
VARIABLES
  constructed,    \* "none": no constructor call yet, "ok": an instance exists, "failed": the constructor threw
  isWebGL2,       \* GLRenderer.isWebGL2
  contexts,       \* the getContext calls the constructor made, in order, and whether each gave a context
  shaders,        \* the shader sources the constructor handed to the compiler, in order
  uniforms,       \* GLRenderer.uniforms: the names whose resolved location is not null
  rafId,          \* GLRenderer.rafId
  rafQueue,       \* the browser's animation-frame callbacks that are pending (their handles)
  nextHandle,     \* the handle the next requestAnimationFrame call returns
  gpu,            \* live objects of the WebGL context: shaders, programs, buffers, textures
  glUniforms,     \* the uniform values of the linked program
  texture,        \* what the video texture holds: "placeholder" or "video"
  canvas,         \* clientWidth, clientHeight (layout size) and width, height (backing size)
  dpr,            \* window.devicePixelRatio, in halves (2 is 1.0, 3 is 1.5, 0 is unset)
  video,          \* readyState, videoWidth, videoHeight of the video element
  settings,       \* the snapshot the settings accessor returns
  fragment,       \* a fragment of the last frame: the values the fragment shader computed for it
  cycles,         \* how many times stop() has stopped a renderer that start() had started
  last,           \* what the last call did: the call, whether it threw, the GL calls it made
  app             \* the App component: its state, its refs, the browser objects it holds

vars ==
  <<constructed, isWebGL2, contexts, shaders, uniforms, rafId, rafQueue, nextHandle, gpu,
    glUniforms, texture, canvas, dpr, video, settings, fragment, cycles, last, app>>

\* HTMLMediaElement.HAVE_CURRENT_DATA
HAVE_CURRENT_DATA == 2

\* ------------------------------------------------------ shaders / uniforms
\* every uniform name the constructor resolves
UniformNames ==
  {"uTexture", "uContrast", "uBrightness", "uGamma", "uHighlights", "uShadows",
   "uTemperature", "uScale", "uOffset", "uSeparation", "uEyeSign", "uVideoAspect",
   "uMagnifyEnabled", "uMagnifyZoom", "uMagnifySize", "uSphereStrength",
   "uSphereRadius", "uFilterMode", "uTexel", "uK1", "uK2", "uDistortEnabled",
   "uCalibrate", "uResolution"}

\* the uniforms the fragment shaders declare (the same list in both tiers):
\* getUniformLocation returns null for every other name
DeclaredUniforms == UniformNames \ {"uTemperature", "uMagnifySize"}

\* ------------------------------------------- the state a handler works on
\* The fields a call into the renderer reads and writes, as one record, so
\* that a handler and the calls nested in it are one function of it.
Machine ==
  [rafId |-> rafId, rafQueue |-> rafQueue, nextHandle |-> nextHandle,
   width |-> canvas.width, height |-> canvas.height,
   glUniforms |-> glUniforms, texture |-> texture, gpu |-> gpu,
   threw |-> FALSE, log |-> <<>>, draws |-> <<>>, began |-> 0, completed |-> 0,
   reads |-> 0, written |-> {}]

Log(m, what) == [m EXCEPT !.log = Append(@, what)]

\* window.requestAnimationFrame(cb): queues cb and returns a fresh handle
RequestAnimationFrame(m) ==
  [m EXCEPT !.rafQueue = @ \cup {m.nextHandle},
            !.nextHandle = @ + 1,
            !.rafId = m.nextHandle]

\* window.cancelAnimationFrame(h): a handle that is not pending is ignored
CancelAnimationFrame(m, h) == [m EXCEPT !.rafQueue = @ \ {h}]

\* GLRenderer.stop
StopOp(m) ==
  IF m.rafId # 0
    THEN [CancelAnimationFrame(m, m.rafId) EXCEPT !.rafId = 0]
    ELSE m

\* GLRenderer.resizeCanvas
DisplaySize(client) ==
  LET ratio == IF dpr = 0 THEN 2 ELSE dpr
  IN  Max2(1, (client * ratio) \div 2)

\* (mutant) the backing size is assigned in every frame
ResizeCanvasAlways(m) ==
  Log([m EXCEPT !.width = DisplaySize(canvas.clientWidth),
                !.height = DisplaySize(canvas.clientHeight)], "resize")

ResizeCanvas(m) ==
  LET displayWidth == DisplaySize(canvas.clientWidth)
      displayHeight == DisplaySize(canvas.clientHeight)
  IN  IF m.width # displayWidth \/ m.height # displayHeight
        THEN Log([m EXCEPT !.width = displayWidth, !.height = displayHeight], "resize")
        ELSE m

\* (mutant) every upload allocates a texture instead of reusing the one of the constructor
UpdateVideoTextureAllocating(m, fails) ==
  IF video.readyState < HAVE_CURRENT_DATA
    THEN Log(m, "skipUpload")
    ELSE IF fails
      THEN [m EXCEPT !.threw = TRUE]
      ELSE Log([m EXCEPT !.texture = "video", !.gpu.textures = @ + 1], "upload")

\* (mutant) a video without a decoded frame is an error
UpdateVideoTextureRequiringData(m, fails) ==
  IF video.readyState < HAVE_CURRENT_DATA \/ fails
    THEN [m EXCEPT !.threw = TRUE]
    ELSE Log([m EXCEPT !.texture = "video"], "upload")

\* GLRenderer.updateVideoTexture; fails: texImage2D throws
UpdateVideoTexture(m, fails) ==
  IF video.readyState < HAVE_CURRENT_DATA
    THEN Log(m, "skipUpload")
    ELSE IF fails
      THEN [m EXCEPT !.threw = TRUE]
      ELSE Log([m EXCEPT !.texture = "video"], "upload")

\* GLRenderer.setUniform1f / setUniform2f: a null location is skipped
SetUniform(m, name, value) ==
  IF name \in uniforms
    THEN [m EXCEPT !.glUniforms = [@ EXCEPT ![name] = value],
                   !.written = @ \cup {name}]
    ELSE m

\* ------------------------------------------------------------ the layout
\* (mutant) half of the smaller side: Math.floor(Math.min(height, width) / 2)
SquareSizeHalfOfSmaller(width, height) == Min2(height, width) \div 2

\* GLRenderer.render, the layout lines: Math.min(height, Math.floor(width / 2))
SquareSize(width, height) == Min2(height, width \div 2)

\* (mutant) the whole free width is put on the left: the division by 2 is lost
OffsetXNotHalved(width, squareSize) == Max2(0, width - squareSize * 2)

\* Math.max(0, Math.floor((width - totalWidth) / 2))
OffsetX(width, squareSize) == Max2(0, (width - squareSize * 2) \div 2)

\* (mutant) the eyes are not centered vertically
OffsetYAtBottom(height, squareSize) == 0

\* Math.max(0, Math.floor((height - squareSize) / 2))
OffsetY(height, squareSize) == Max2(0, (height - squareSize) \div 2)

\* ------------------------------------------------------------- one eye
\* (mutant) a value that is no filter mode selects the last filter
FilterIndexUnknownIsEdge(s) ==
  IF "filterMode" \notin DOMAIN s THEN 3
  ELSE IF s.filterMode = "none" THEN 0
  ELSE IF s.filterMode = "amber" THEN 1
  ELSE IF s.filterMode = "deepblue" THEN 2
  ELSE 3

\* the filterIndex conditional of drawEye
FilterIndex(s) ==
  IF "filterMode" \notin DOMAIN s THEN 0
  ELSE IF s.filterMode = "amber" THEN 1
  ELSE IF s.filterMode = "deepblue" THEN 2
  ELSE IF s.filterMode = "edge" THEN 3
  ELSE 0

\* (mutant) the coefficients are scaled only when the distortion is enabled
DistortionCoefficientGated(s, f) ==
  IF FlagField(s, "distortionEnabled") = V(1000)
    THEN DivBy(NumField(s, f), 10)
    ELSE NumField(s, f)

\* settings.k1 * distortionScale, distortionScale = 0.1
DistortionCoefficient(s, f) == DivBy(NumField(s, f), 10)

\* (mutant) the diameter is passed as the radius: the factor 0.5 is lost
SphereRadiusIsDiameter(s) == DivBy(NumField(s, "sphereDiameter"), 100)

\* 0.5 * (settings.sphereDiameter / 100)
SphereRadius(s) == DivBy(DivBy(NumField(s, "sphereDiameter"), 100), 2)

\* the uniform writes of drawEye: the value drawEye passes for each name
\* (each name is written once, so the order of the writes does not show)
EyeUniformWrites(eyeSign, viewportWidth, viewportHeight, offsetX, offsetY, videoAspect, s) ==
  [uContrast |-> NumField(s, "contrast"),
   uBrightness |-> NumField(s, "brightness"),
   uGamma |-> NumField(s, "gamma"),
   uHighlights |-> NumField(s, "highlights"),
   uShadows |-> NumField(s, "shadows"),
   uTemperature |-> NumField(s, "temperature"),
   uScale |-> NumField(s, "scale"),
   uOffset |-> <<offsetX, offsetY>>,
   uSeparation |-> NumField(s, "separation"),
   uEyeSign |-> V(eyeSign * 1000),
   uVideoAspect |-> videoAspect,
   uMagnifyEnabled |-> FlagField(s, "magnifierEnabled"),
   uMagnifyZoom |-> NumField(s, "magnifierZoom"),
   uMagnifySize |-> NumField(s, "magnifierSize"),
   uSphereStrength |-> DivBy(NumField(s, "sphereStrength"), 100),
   uSphereRadius |-> SphereRadius(s),
   uFilterMode |-> V(FilterIndex(s) * 1000),
   uK1 |-> DistortionCoefficient(s, "k1"),
   uK2 |-> DistortionCoefficient(s, "k2"),
   uDistortEnabled |-> FlagField(s, "distortionEnabled"),
   uCalibrate |-> FlagField(s, "calibration"),
   uResolution |-> <<V(viewportWidth * 1000), V(viewportHeight * 1000)>>]

\* (mutant) the location is not tested: gl.uniform* is called for every name
SetUniformsUnguarded(m, writes) ==
  [m EXCEPT !.glUniforms =
              [n \in DOMAIN m.glUniforms |->
                 IF n \in DOMAIN writes THEN writes[n] ELSE m.glUniforms[n]],
            !.written = @ \cup DOMAIN writes]

\* setUniform1f / setUniform2f over the writes of one drawEye call: a write
\* reaches the program only where the location is not null
SetUniforms(m, writes) ==
  [m EXCEPT !.glUniforms =
              [n \in DOMAIN m.glUniforms |->
                 IF n \in uniforms /\ n \in DOMAIN writes THEN writes[n] ELSE m.glUniforms[n]],
            !.written = @ \cup (DOMAIN writes \cap uniforms)]

\* GLRenderer.drawEye; fails: gl.drawArrays throws
DrawEye(m, eyeSign, viewportX, viewportY, viewportWidth, viewportHeight, offsetX, offsetY, videoAspect, s, fails) ==
  LET eye == IF eyeSign < 0 THEN "left" ELSE "right"
      m1 == Log(m, "viewport:" \o eye)
      m2 == Log(SetUniforms(m1, EyeUniformWrites(eyeSign, viewportWidth, viewportHeight,
                                                 offsetX, offsetY, videoAspect, s)),
                "uniforms:" \o eye)
  IN  IF fails
        THEN [m2 EXCEPT !.threw = TRUE]
        ELSE [Log(m2, "draw:" \o eye) EXCEPT
                !.draws = Append(@, [eye |-> eye,
                                     viewport |-> <<viewportX, viewportY, viewportWidth, viewportHeight>>,
                                     texture |-> m2.texture,
                                     u |-> m2.glUniforms])]

\* ------------------------------------------------- the fragment shader
\* GLSL floats are values of the same fixed point (unit 1/1000), products
\* and quotients rounded to the nearest unit.  NaN stands for a result GLSL
\* leaves undefined (a division by zero, pow outside its domain, smoothstep
\* with edge0 >= edge1): any value may come out, so nothing can be said of
\* a result that depends on it.  A constant of the source below the unit
\* (0.00001, 0.0001) is the unit, the smallest positive value.
Round(n, d) == IF d > 0 THEN (2 * n + d) \div (2 * d) ELSE (2 * (0 - n) - d) \div (2 * (0 - d))

FAdd(a, b) == IF a.nan \/ b.nan THEN NaN ELSE V(a.v + b.v)
FSub(a, b) == IF a.nan \/ b.nan THEN NaN ELSE V(a.v - b.v)
FMul(a, b) == IF a.nan \/ b.nan THEN NaN ELSE V(Round(a.v * b.v, 1000))
FDiv(a, b) == IF a.nan \/ b.nan THEN NaN ELSE IF b.v = 0 THEN NaN ELSE V(Round(a.v * 1000, b.v))
FMax(a, b) == IF a.nan \/ b.nan THEN NaN ELSE V(Max2(a.v, b.v))
FMin(a, b) == IF a.nan \/ b.nan THEN NaN ELSE V(Min2(a.v, b.v))
FAbs(a) == IF a.nan THEN NaN ELSE V(IF a.v < 0 THEN 0 - a.v ELSE a.v)
FFract(a) == IF a.nan THEN NaN ELSE V(a.v % 1000)
FClamp(x, lo, hi) == FMin(FMax(x, lo), hi)
FStep(edge, x) == IF edge.nan \/ x.nan THEN NaN ELSE IF x.v < edge.v THEN V(0) ELSE V(1000)
FMix(x, y, a) == FAdd(FMul(x, FSub(V(1000), a)), FMul(y, a))
FSmoothstep(edge0, edge1, x) ==
  IF edge0.nan \/ edge1.nan \/ x.nan THEN NaN
  ELSE IF edge0.v >= edge1.v THEN NaN
  ELSE LET t == FClamp(FDiv(FSub(x, edge0), FSub(edge1, edge0)), V(0), V(1000))
       IN  FMul(FMul(t, t), FSub(V(3000), FMul(V(2000), t)))
\* a > b as GLSL compares: false when either side is not a number
FGt(a, b) == ~a.nan /\ ~b.nan /\ a.v > b.v
FLt(a, b) == ~a.nan /\ ~b.nan /\ a.v < b.v

\* the integer square root
RECURSIVE SqrtBetween(_, _, _)
SqrtBetween(n, lo, hi) ==
  IF lo >= hi THEN lo
  ELSE LET mid == (lo + hi + 1) \div 2
       IN  IF mid * mid <= n THEN SqrtBetween(n, mid, hi) ELSE SqrtBetween(n, lo, mid - 1)
ISqrt(n) == SqrtBetween(n, 0, 40000)

\* length(vec2): the units of the squares cancel under the root
FLength(a) ==
  IF a[1].nan \/ a[2].nan THEN NaN
  ELSE V(ISqrt(a[1].v * a[1].v + a[2].v * a[2].v))

\* asin(x) / 1.57079632679 for x in [0, 1]: linear between the values at 0, 0.1, ..., 1
AsinTable == <<0, 64, 128, 194, 262, 333, 410, 494, 590, 713, 1000>>
FAsinNorm(x) ==
  IF x.nan THEN NaN
  ELSE IF x.v < 0 \/ x.v > 1000 THEN NaN
  ELSE LET i == Min2(x.v \div 100, 9)
           lo == AsinTable[i + 1]
           hi == AsinTable[i + 2]
       IN  V(lo + Round((hi - lo) * (x.v - 100 * i), 100))

\* log2 of a positive value: linear between the values at 0.5, 0.6, ..., 1
Log2Table == <<-1000, -737, -515, -322, -152, 0>>
RECURSIVE Log2(_)
Log2(x) ==
  IF x < 500 THEN Log2(2 * x) - 1000
  ELSE IF x > 1000 THEN Log2(x \div 2) + 1000
  ELSE LET i == Min2((x - 500) \div 100, 4)
           lo == Log2Table[i + 1]
           hi == Log2Table[i + 2]
       IN  lo + Round((hi - lo) * (x - 500 - 100 * i), 100)

\* 2 to the power e: linear between the values at 0, 0.2, ..., 1 of the fraction
Exp2Table == <<1000, 1149, 1320, 1516, 1741, 2000>>
RECURSIVE Halved(_, _)
Halved(x, k) == IF k = 0 \/ x = 0 THEN x ELSE Halved(x \div 2, k - 1)
RECURSIVE Doubled(_, _)
Doubled(x, k) == IF k = 0 THEN x ELSE Doubled(2 * x, k - 1)
Exp2(e) ==
  LET k == e \div 1000
      f == e % 1000
      i == f \div 200
      lo == Exp2Table[i + 1]
      hi == Exp2Table[i + 2]
      unit == lo + Round((hi - lo) * (f - 200 * i), 200)
  IN  IF k < 0 THEN Halved(unit, 0 - k) ELSE Doubled(unit, Min2(k, 10))

\* pow(x, y): undefined for x < 0, and for x = 0 with y <= 0
FPow(x, y) ==
  IF x.nan \/ y.nan THEN NaN
  ELSE IF x.v < 0 THEN NaN
  ELSE IF x.v = 0 THEN (IF y.v <= 0 THEN NaN ELSE V(0))
  ELSE LET l == Log2(x.v)
           e == IF y.v > 40000 \/ y.v < -40000 THEN (y.v \div 1000) * l ELSE Round(y.v * l, 1000)
       IN  V(Exp2(Max2(e, -20000)))

\* vec2 and vec3 arithmetic, component by component
V2(x, y) == <<V(x), V(y)>>
Add2(a, b) == <<FAdd(a[1], b[1]), FAdd(a[2], b[2])>>
Sub2(a, b) == <<FSub(a[1], b[1]), FSub(a[2], b[2])>>
Scale2(a, s) == <<FMul(a[1], s), FMul(a[2], s)>>
Div2(a, s) == <<FDiv(a[1], s), FDiv(a[2], s)>>
Mix2(a, b, t) == <<FMix(a[1], b[1], t), FMix(a[2], b[2], t)>>
Dot2(a, b) == FAdd(FMul(a[1], b[1]), FMul(a[2], b[2]))
V3(r, g, b) == <<V(r), V(g), V(b)>>
Mix3(a, b, t) == <<FMix(a[1], b[1], t), FMix(a[2], b[2], t), FMix(a[3], b[3], t)>>

\* the uniform as the shader reads it
Ratio(p) == V((p[1] * 1000) \div p[2])

\* texture2D / texture: the wrap mode is CLAMP_TO_EDGE.  The placeholder of
\* initTexture is one black texel; the video frame is a picture whose color
\* differs from point to point.
Texture2D(tex, coord) ==
  IF coord[1].nan \/ coord[2].nan THEN <<NaN, NaN, NaN>>
  ELSE IF tex = "video"
    THEN LET x == Max2(0, Min2(1000, coord[1].v))
             y == Max2(0, Min2(1000, coord[2].v))
         IN  V3(x, y, (x + (1000 - y)) \div 2)
    ELSE V3(0, 0, 0)

\* luminance
Luminance(color) ==
  FAdd(FAdd(FMul(color[1], V(213)), FMul(color[2], V(715))), FMul(color[3], V(72)))

\* the exponent of the gamma curve: 1.0 / max(uGamma, 0.001)
GammaExponent(u) == FDiv(V(1000), FMax(u["uGamma"], V(1)))

\* (mutant) the exponent is 1.0 / uGamma, without the floor
ApplyColorUnflooredGamma(color, u) ==
  LET Curve(c) ==
        FPow(FClamp(FAdd(FAdd(FMul(FSub(c, V(500)), u["uContrast"]), V(500)), u["uBrightness"]),
                    V(0), V(1000)),
             FDiv(V(1000), u["uGamma"]))
      c4 == <<Curve(color[1]), Curve(color[2]), Curve(color[3])>>
      lum == Luminance(c4)
      shadowMask == FSub(V(1000), FSmoothstep(V(200), V(550), lum))
      highlightMask == FSmoothstep(V(550), V(900), lum)
      Boost(c) ==
        FClamp(FAdd(FAdd(c, FMul(FMul(shadowMask, u["uShadows"]), V(350))),
                    FMul(FMul(highlightMask, u["uHighlights"]), V(350))),
               V(0), V(1000))
  IN  <<Boost(c4[1]), Boost(c4[2]), Boost(c4[3])>>

\* applyColor: contrast, brightness, clamp and gamma curve on each channel,
\* then the shadow and highlight boosts from the luminance, and the clamp
ApplyColor(color, u) ==
  LET Curve(c) ==
        FPow(FClamp(FAdd(FAdd(FMul(FSub(c, V(500)), u["uContrast"]), V(500)), u["uBrightness"]),
                    V(0), V(1000)),
             GammaExponent(u))
      c4 == <<Curve(color[1]), Curve(color[2]), Curve(color[3])>>
      lum == Luminance(c4)
      shadowMask == FSub(V(1000), FSmoothstep(V(200), V(550), lum))
      highlightMask == FSmoothstep(V(550), V(900), lum)
      Boost(c) ==
        FClamp(FAdd(FAdd(c, FMul(FMul(shadowMask, u["uShadows"]), V(350))),
                    FMul(FMul(highlightMask, u["uHighlights"]), V(350))),
               V(0), V(1000))
  IN  <<Boost(c4[1]), Boost(c4[2]), Boost(c4[3])>>

\* sobelEdge; the threshold is 0.1 in fragmentWebGL1 and 0.6 in fragmentWebGL2
SobelEdge(tex, uv, u, webgl2) ==
  LET tx == Ratio(u["uTexel"][1])
      ty == Ratio(u["uTexel"][2])
      At(sx, sy) == Luminance(Texture2D(tex, Add2(uv, <<FMul(V(sx * 1000), tx), FMul(V(sy * 1000), ty)>>)))
      tl == At(-1, -1)
      tc == At(0, -1)
      tr == At(1, -1)
      ml == At(-1, 0)
      mr == At(1, 0)
      bl == At(-1, 1)
      bc == At(0, 1)
      br == At(1, 1)
      Twice(a) == FMul(V(2000), a)
      gx == FAdd(FAdd(FSub(tr, tl), FSub(Twice(mr), Twice(ml))), FSub(br, bl))
      gy == FAdd(FAdd(FSub(bl, tl), FSub(Twice(bc), Twice(tc))), FSub(br, tr))
  IN  FStep(IF webgl2 THEN V(600) ELSE V(100), FLength(<<gx, gy>>))

\* (mutant) the enabled flag is not read: the polynomial is always applied
ApplyDistortionAlways(uv, center, u) ==
  LET d == Sub2(uv, center)
      r2 == Dot2(d, d)
      factor == FAdd(FAdd(V(1000), FMul(u["uK1"], r2)), FMul(FMul(u["uK2"], r2), r2))
  IN  Add2(center, Scale2(d, factor))

\* applyDistortion
ApplyDistortion(uv, center, u) ==
  LET enabled == FStep(V(500), u["uDistortEnabled"])
      d == Sub2(uv, center)
      r2 == Dot2(d, d)
      factor == FAdd(FAdd(V(1000), FMul(u["uK1"], r2)), FMul(FMul(u["uK2"], r2), r2))
      warped == Add2(center, Scale2(d, factor))
  IN  Mix2(uv, warped, enabled)

\* lineMask
LineMask(v, count, thickness) ==
  LET cell == FAbs(FSub(FFract(FMul(v, count)), V(500)))
  IN  FSub(V(1000), FSmoothstep(V(0), thickness, cell))

\* main, the sphere stage: the radius of the fragment in units of the sphere radius
SphereNormR(vUV, u) ==
  FDiv(FLength(Sub2(vUV, V2(500, 500))), FMax(u["uSphereRadius"], V(1)))

\* (mutant) the feather grows with the strength: mix(0.0, 0.45, sphereStrength)
SphereFeatherGrowing(u) ==
  FMix(V(0), V(450), FClamp(u["uSphereStrength"], V(0), V(1000)))

\* main, the sphere stage: feather = mix(0.45, 0.0, sphereStrength)
SphereFeather(u) ==
  FMix(V(450), V(0), FClamp(u["uSphereStrength"], V(0), V(1000)))

\* main, the sphere stage: the feather mask
SphereMask(normR, u) ==
  LET feather == SphereFeather(u)
  IN  IF FGt(feather, V(0))
        THEN FSub(V(1000), FSmoothstep(FSub(V(1000), feather), V(1000), normR))
        ELSE FStep(normR, V(1000))

\* main, the sphere stage: the blend of the distorted coordinate with the sphere-mapped one
SphereBlend(warped, vUV, center, u) ==
  LET sphereRadius == FMax(u["uSphereRadius"], V(1))
      screenDelta == Sub2(vUV, V2(500, 500))
      screenR == FLength(screenDelta)
      normR == SphereNormR(vUV, u)
      clampedR == FClamp(normR, V(0), V(1000))
      sphereNorm == FAsinNorm(clampedR)
      dir == IF FGt(screenR, V(0)) THEN Div2(screenDelta, screenR) ELSE V2(0, 0)
      sphereDelta == Div2(Scale2(dir, FMul(sphereNorm, sphereRadius)), u["uScale"])
      sphereUV == Add2(center, sphereDelta)
  IN  Mix2(warped, sphereUV, SphereMask(normR, u))

\* (mutant) the sphere blend is applied whatever the strength
SphereStageUngated(warped, vUV, center, u) == SphereBlend(warped, vUV, center, u)

\* main, the sphere stage: active only for a strength above 0.001
SphereStage(warped, vUV, center, u) ==
  IF FGt(FClamp(u["uSphereStrength"], V(0), V(1000)), V(1))
    THEN SphereBlend(warped, vUV, center, u)
    ELSE warped

\* main, the filter stage; the edge filter darkens by 0.3 in fragmentWebGL1
\* and fully in fragmentWebGL2
FilterStage(color, warped, u, webgl2, tex) ==
  LET mode == u["uFilterMode"]
      mask == FStep(V(520), Luminance(color))
  IN  IF FGt(mode, V(500)) /\ FLt(mode, V(1500))
        THEN Mix3(V3(30, 30, 20), V3(1000, 820, 120), mask)
      ELSE IF FGt(mode, V(1500)) /\ FLt(mode, V(2500))
        THEN Mix3(V3(40, 60, 180), V3(920, 960, 1000), mask)
      ELSE IF FGt(mode, V(2500))
        THEN LET edge == SobelEdge(tex, warped, u, webgl2)
             IN  Mix3(color, V3(0, 0, 0), IF webgl2 THEN edge ELSE FMul(edge, V(300)))
      ELSE color

\* (mutant) the zoom is not floored at 1
ZoomUVUnfloored(warped, center, u) ==
  Add2(center, Div2(Sub2(warped, center), u["uMagnifyZoom"]))

\* main, the magnifier: the coordinate of the zoomed sample
ZoomUV(warped, center, u) ==
  Add2(center, Div2(Sub2(warped, center), FMax(u["uMagnifyZoom"], V(1000))))

\* main, the magnifier: the rounded-rectangle mask, 1 inside and 0 outside
MagnifierMask(vUV) ==
  LET p == Sub2(vUV, V2(500, 500))
      q == <<FAdd(FSub(FAbs(p[1]), V(220)), V(60)), FAdd(FSub(FAbs(p[2]), V(220)), V(60))>>
      dist == FSub(FAdd(FLength(<<FMax(q[1], V(0)), FMax(q[2], V(0))>>),
                        FMin(FMax(q[1], q[2]), V(0))),
                   V(60))
  IN  FSub(V(1000), FSmoothstep(V(0), V(12), dist))

\* main, the magnifier stage
MagnifierStage(color, vUV, warped, center, u, tex) ==
  IF FGt(FStep(V(500), u["uMagnifyEnabled"]), V(500))
    THEN Mix3(color, ApplyColor(Texture2D(tex, ZoomUV(warped, center, u)), u), MagnifierMask(vUV))
    ELSE color

\* main, the calibration overlay; the cross is 1 grid thickness wide in
\* fragmentWebGL1 and 1.4 in fragmentWebGL2
CalibrationStage(color, vUV, warped, u, webgl2) ==
  IF FGt(FStep(V(500), u["uCalibrate"]), V(500))
    THEN LET px == FDiv(V(1000), FMax(V(1000), FMin(u["uResolution"][1], u["uResolution"][2])))
             gridThickness == FMul(px, V(6000))
             ringThickness == FMul(px, V(1600))
             gridUV == <<FClamp(warped[1], V(0), V(1000)), FClamp(warped[2], V(0), V(1000))>>
             grid == FMax(LineMask(gridUV[1], V(6000), gridThickness),
                          LineMask(gridUV[2], V(6000), gridThickness))
             crossWidth == FMul(gridThickness, IF webgl2 THEN V(1400) ELSE V(1000))
             crossX == FSub(V(1000), FSmoothstep(V(0), crossWidth, FAbs(FSub(vUV[1], V(500)))))
             crossY == FSub(V(1000), FSmoothstep(V(0), crossWidth, FAbs(FSub(vUV[2], V(500)))))
             cross == FMax(crossX, crossY)
             r == FLength(Sub2(vUV, V2(500, 500)))
             ring1 == FSub(V(1000), FSmoothstep(ringThickness, FMul(ringThickness, V(3000)),
                                                FAbs(FSub(r, V(250)))))
             ring2 == FSub(V(1000), FSmoothstep(ringThickness, FMul(ringThickness, V(3000)),
                                                FAbs(FSub(r, V(400)))))
             gridded == Mix3(color, V3(80, 920, 1000), FMul(grid, V(800)))
             overlay == FMax(cross, FMul(FMax(ring1, ring2), V(450)))
             overlayColor == Mix3(V3(120, 1000, 700), V3(1000, 700, 250), cross)
         IN  Mix3(gridded, overlayColor, FMul(overlay, V(450)))
    ELSE color

\* main: the fragment of eye k at the interpolated coordinate vUV, with the
\* value of every stage
Fragment(k, vUV, u, webgl2, tex) ==
  LET aspect == Ratio(u["uVideoAspect"])
      uv0 == IF FGt(aspect, V(1000))
               THEN <<FAdd(FDiv(FSub(vUV[1], V(500)), aspect), V(500)), vUV[2]>>
               ELSE <<vUV[1], FAdd(FMul(FSub(vUV[2], V(500)), aspect), V(500))>>
      uv1 == Add2(Div2(Sub2(uv0, V2(500, 500)), u["uScale"]), V2(500, 500))
      eyeShift == <<FMul(u["uEyeSign"], u["uSeparation"]), V(0)>>
      uv == Add2(uv1, Add2(u["uOffset"], eyeShift))
      center == Add2(V2(500, 500), Add2(u["uOffset"], eyeShift))
      distorted == ApplyDistortion(uv, center, u)
      warped == SphereStage(distorted, vUV, center, u)
      graded == ApplyColor(Texture2D(tex, warped), u)
      filtered == FilterStage(graded, warped, u, webgl2, tex)
      magnified == MagnifierStage(filtered, vUV, warped, center, u, tex)
      color == CalibrationStage(magnified, vUV, warped, u, webgl2)
  IN  [eye |-> k, vUV |-> vUV, uv |-> uv, center |-> center, distorted |-> distorted,
       warped |-> warped, normR |-> SphereNormR(vUV, u), feather |-> SphereFeather(u),
       mask |-> SphereMask(SphereNormR(vUV, u), u),
       exponent |-> GammaExponent(u), graded |-> graded,
       magnified |-> magnified, color |-> color]

\* no fragment has been looked at since the last call
NoFragment == [eye |-> 0]

\* ------------------------------------------------------------- one frame
\* What a frame meets, chosen by the environment: the step that throws (if
\* any) and the calls the settings accessor makes back into the renderer
\* before it returns.  A script is one such input per render call, the
\* outermost first; the innermost accessor does not call start().
Faults == {"none", "upload", "accessor", "drawLeft", "drawRight"}
AccessorCalls == {<<>>, <<"stop">>, <<"start">>}
\* (an upload that throws ends the frame before the accessor runs)
FrameInputs == {i \in [fault : Faults, calls : AccessorCalls] : i.fault = "upload" => i.calls = <<>>}
InnermostInputs == {i \in FrameInputs : \A k \in DOMAIN i.calls : i.calls[k] # "start"}

\* the frame in which nothing throws and the accessor only returns the snapshot
QuietInput == [fault |-> "none", calls |-> <<>>]

RECURSIVE QuietScript(_)
QuietScript(n) == IF n = 0 THEN <<QuietInput>> ELSE <<QuietInput>> \o QuietScript(n - 1)

\* the inputs of the nested render calls matter only when the accessor calls start()
RECURSIVE ScriptsOfDepth(_)
ScriptsOfDepth(n) ==
  IF n = 0 THEN {<<i>> : i \in InnermostInputs}
  ELSE {<<i>> \o t : i \in InnermostInputs, t \in {QuietScript(n - 1)}}
       \cup {<<i>> \o t : i \in FrameInputs \ InnermostInputs, t \in ScriptsOfDepth(n - 1)}

Scripts == ScriptsOfDepth(MaxNest)

QuietScripts == {QuietScript(MaxNest)}

\* The scripts of S that differ in what the call can meet: the inputs of the
\* nested render calls are read only when rafId is 0 as the accessor runs
\* (start() returns at once otherwise), and a start() that returns at once
\* reads no input at all.
NestedQuiet(script) == \A k \in 2..Len(script) : script[k] = QuietInput
FrameScripts(S) == IF rafId = 0 THEN S ELSE {script \in S : NestedQuiet(script)}
StartScripts(S) == IF rafId = 0 THEN S ELSE S \cap QuietScripts

\* this.video.videoWidth || 1
VideoWidth == IF video.videoWidth = 0 THEN 1 ELSE video.videoWidth
VideoHeight == IF video.videoHeight = 0 THEN 1 ELSE video.videoHeight

RECURSIVE Render(_, _)
RECURSIVE RunAccessorCalls(_, _, _)

\* GLRenderer.start
StartOp(m, script) == IF m.rafId # 0 THEN m ELSE Render(m, script)

\* the body of the settings accessor: its calls into the renderer, in order
RunAccessorCalls(m, calls, script) ==
  IF calls = <<>> \/ m.threw THEN m
  ELSE IF Head(calls) = "stop"
    THEN RunAccessorCalls(StopOp(m), Tail(calls), script)
    ELSE RunAccessorCalls(StartOp(m, script), Tail(calls), script)

\* (mutant) the accessor is called again for the second eye
GetSettingsPerEye(m, inp, script) ==
  LET m1 == RunAccessorCalls([m EXCEPT !.reads = @ + 2], inp.calls, script)
  IN  IF m1.threw THEN m1
      ELSE IF inp.fault = "accessor" THEN [m1 EXCEPT !.threw = TRUE]
      ELSE m1

\* this.getSettings(): the accessor runs, then returns the snapshot or throws
GetSettings(m, inp, script) ==
  LET m1 == RunAccessorCalls([m EXCEPT !.reads = @ + 1], inp.calls, script)
  IN  IF m1.threw THEN m1
      ELSE IF inp.fault = "accessor" THEN [m1 EXCEPT !.threw = TRUE]
      ELSE m1

\* GLRenderer.render
Render(m, script) ==
  LET inp == Head(script)
      m1 == Log(ResizeCanvas([m EXCEPT !.began = @ + 1]), "clear")
      m2 == UpdateVideoTexture(m1, inp.fault = "upload")
      width == m2.width
      height == m2.height
      squareSize == SquareSize(width, height)
      offsetX == OffsetX(width, squareSize)
      offsetY == OffsetY(height, squareSize)
      m3 == GetSettings(Log(m2, "layout"), inp, Tail(script))
      s == settings
      videoAspect == <<VideoWidth, VideoHeight>>
      m4 == SetUniform(m3, "uTexel", << <<1, VideoWidth>>, <<1, VideoHeight>> >>)
      m5 == DrawEye(m4, -1, offsetX, offsetY, squareSize, squareSize,
                    NumField(s, "leftOffsetX"), NumField(s, "leftOffsetY"),
                    videoAspect, s, inp.fault = "drawLeft")
      m6 == DrawEye(m5, 1, offsetX + squareSize, offsetY, squareSize, squareSize,
                    NumField(s, "rightOffsetX"), NumField(s, "rightOffsetY"),
                    videoAspect, s, inp.fault = "drawRight")
  IN  IF m2.threw THEN m2
      ELSE IF m3.threw THEN m3
      ELSE IF m5.threw THEN m5
      ELSE IF m6.threw THEN m6
      ELSE Log([RequestAnimationFrame(m6) EXCEPT !.completed = @ + 1], "raf")

\* ------------------------------------------------------- the constructor
\* what canvas.getContext can give: "webgl2", only "webgl", or nothing
ContextSupport == {"webgl2", "webgl", "none"}

\* the step of the constructor that fails, if any
ConstructFailures ==
  {"none", "createVertexShader", "compileVertex", "createFragmentShader",
   "compileFragment", "createProgram", "link", "createBuffer", "createTexture"}

NoGpu == [shaders |-> 0, programs |-> 0, buffers |-> 0, textures |-> 0]

\* the uniform values of a freshly linked program
InitialUniforms ==
  [n \in DeclaredUniforms |->
     IF n \in {"uOffset", "uResolution"} THEN <<V(0), V(0)>>
     ELSE IF n = "uVideoAspect" THEN <<0, 1>>
     ELSE IF n = "uTexel" THEN << <<0, 1>>, <<0, 1>> >>
     ELSE V(0)]

\* GLRenderer.createShader / createProgram and the allocations after them:
\* the live objects the constructor leaves behind when `failure` happens
GpuAfterConstructor(failure) ==
  CASE failure = "createVertexShader" -> NoGpu
    [] failure = "compileVertex" -> NoGpu
    [] failure = "createFragmentShader" -> [NoGpu EXCEPT !.shaders = 1]
    [] failure = "compileFragment" -> [NoGpu EXCEPT !.shaders = 1]
    [] failure = "createProgram" -> [NoGpu EXCEPT !.shaders = 2]
    [] failure = "link" -> [NoGpu EXCEPT !.shaders = 2]
    [] failure = "createBuffer" -> [NoGpu EXCEPT !.programs = 1, !.textures = 1]
    [] failure = "createTexture" -> [NoGpu EXCEPT !.programs = 1, !.buffers = 1]
    [] OTHER -> [NoGpu EXCEPT !.programs = 1, !.buffers = 1, !.textures = 1]

\* what getShaderInfoLog / getProgramInfoLog return: the text of the driver, or null
InfoLogs == {"ERROR: 0:1: syntax error", "null"}

\* (mutant) a compile or link failure is reported with a fixed text
ConstructorErrorFixedText(support, failure, infoLog) ==
  IF support = "none" THEN "WebGL is not supported on this device."
  ELSE CASE failure = "none" -> ""
         [] failure \in {"createVertexShader", "createFragmentShader"} -> "Failed to create shader."
         [] failure \in {"compileVertex", "compileFragment"} -> "Unknown shader error."
         [] failure = "createProgram" -> "Failed to create program."
         [] failure = "link" -> "Unknown program error."
         [] OTHER -> "Failed to allocate WebGL resources."

\* the error the constructor throws
ConstructorError(support, failure, infoLog) ==
  IF support = "none" THEN "WebGL is not supported on this device."
  ELSE CASE failure = "none" -> ""
         [] failure \in {"createVertexShader", "createFragmentShader"} -> "Failed to create shader."
         [] failure \in {"compileVertex", "compileFragment"} ->
              IF infoLog = "null" THEN "Unknown shader error." ELSE infoLog
         [] failure = "createProgram" -> "Failed to create program."
         [] failure = "link" ->
              IF infoLog = "null" THEN "Unknown program error." ELSE infoLog
         [] OTHER -> "Failed to allocate WebGL resources."

\* the getContext calls of the constructor: "webgl" is asked for only when "webgl2" gave null
ContextRequests(support) ==
  IF support = "webgl2"
    THEN <<[id |-> "webgl2", got |-> TRUE]>>
    ELSE <<[id |-> "webgl2", got |-> FALSE], [id |-> "webgl", got |-> support = "webgl"]>>

\* (mutant) the vertex stage of the higher tier is used with either fragment stage
ShaderSourcesSharedVertex(webgl2) ==
  IF webgl2 THEN <<"vertexWebGL2", "fragmentWebGL2">> ELSE <<"vertexWebGL2", "fragmentWebGL1">>

\* the arguments of createProgram: the shader pair of the tier
ShaderSources(webgl2) ==
  IF webgl2 THEN <<"vertexWebGL2", "fragmentWebGL2">> ELSE <<"vertexWebGL1", "fragmentWebGL1">>

\* the sources createShader handed to the compiler before `failure` happened
CompiledSources(webgl2, failure) ==
  CASE failure = "createVertexShader" -> <<>>
    [] failure \in {"compileVertex", "createFragmentShader"} -> <<ShaderSources(webgl2)[1]>>
    [] OTHER -> ShaderSources(webgl2)

NoCall ==
  [op |-> "none", threw |-> FALSE, error |-> "", cause |-> "none", infoLog |-> "null",
   log |-> <<>>, draws |-> <<>>,
   began |-> 0, completed |-> 0, reads |-> 0, written |-> {}, calls |-> <<>>, fired |-> 0]

\* ------------------------------------------------------------ the actions
\* new GLRenderer(canvas, video, getSettings)
Construct ==
  /\ constructed = "none"
  /\ \E support \in ContextSupport, failure \in ConstructFailures, infoLog \in InfoLogs :
       LET ok == support # "none" /\ failure = "none"
           logged == support # "none" /\ failure \in {"compileVertex", "compileFragment", "link"}
       IN  /\ (~logged => infoLog = "null")
           /\ constructed' = IF ok THEN "ok" ELSE "failed"
           /\ contexts' = ContextRequests(support)
           /\ isWebGL2' = (support = "webgl2")
           /\ shaders' = IF support = "none" THEN <<>>
                          ELSE CompiledSources(support = "webgl2", failure)
           /\ gpu' = IF support = "none" THEN NoGpu ELSE GpuAfterConstructor(failure)
           /\ uniforms' = IF ok THEN DeclaredUniforms ELSE {}
           /\ glUniforms' = InitialUniforms
           /\ texture' = IF ok THEN "placeholder" ELSE texture
           /\ last' = [NoCall EXCEPT !.op = "construct", !.threw = ~ok,
                                     !.error = ConstructorError(support, failure, infoLog),
                                     !.cause = IF support = "none" THEN "context" ELSE failure,
                                     !.infoLog = infoLog]
  /\ fragment' = NoFragment
  /\ UNCHANGED <<rafId, rafQueue, nextHandle, canvas, dpr, video, settings, cycles, app>>

\* what a call into the renderer leaves in the state
Commit(m, op, calls, fired) ==
  /\ m.nextHandle <= MaxHandle + 1
  /\ rafId' = m.rafId
  /\ rafQueue' = m.rafQueue
  /\ nextHandle' = m.nextHandle
  /\ canvas' = [canvas EXCEPT !.width = m.width, !.height = m.height]
  /\ glUniforms' = m.glUniforms
  /\ texture' = m.texture
  /\ gpu' = m.gpu
  /\ last' = [NoCall EXCEPT !.op = op, !.threw = m.threw, !.log = m.log,
                            !.draws = m.draws, !.began = m.began,
                            !.completed = m.completed, !.reads = m.reads,
                            !.written = m.written,
                            !.calls = calls, !.fired = fired]
  /\ fragment' = NoFragment
  /\ UNCHANGED <<constructed, isWebGL2, contexts, shaders, uniforms, dpr, video, settings, app>>

\* the caller calls renderer.start()
Start(S) ==
  /\ constructed = "ok"
  /\ \E script \in StartScripts(S) :
       \E m \in {StartOp(Machine, script)} : Commit(m, "start", Head(script).calls, 0)
  /\ UNCHANGED cycles

\* the caller calls renderer.stop()
Stop ==
  /\ constructed = "ok"
  /\ \E m \in {StopOp(Machine)} : Commit(m, "stop", <<>>, 0)
  /\ cycles' = IF rafId # 0 THEN cycles + 1 ELSE cycles

\* the browser runs the oldest pending animation-frame callback
AnimationFrame(S) ==
  /\ rafQueue # {}
  /\ LET h == MinOf(rafQueue)
     IN  \E script \in FrameScripts(S) :
           \E m \in {Render([Machine EXCEPT !.rafQueue = @ \ {h}], script)} :
             Commit(m, "frame", Head(script).calls, h)
  /\ UNCHANGED cycles

\* the environment: the page lays the canvas out at another size
Resize(Sizes) ==
  /\ \E w \in Sizes, h \in Sizes :
       /\ <<w, h>> # <<canvas.clientWidth, canvas.clientHeight>>
       /\ canvas' = [canvas EXCEPT !.clientWidth = w, !.clientHeight = h]
  /\ last' = [NoCall EXCEPT !.op = "resize"]
  /\ fragment' = NoFragment
  /\ UNCHANGED <<constructed, isWebGL2, contexts, shaders, uniforms, rafId, rafQueue,
                 nextHandle, gpu, glUniforms, texture, dpr, video, settings, cycles, app>>

\* the environment: the camera stream delivers (or stops delivering) frames
Videos ==
  {[readyState |-> 0, videoWidth |-> 0, videoHeight |-> 0],
   [readyState |-> 4, videoWidth |-> 1280, videoHeight |-> 720]}

VideoChanges ==
  /\ \E v \in Videos : v # video /\ video' = v
  /\ last' = [NoCall EXCEPT !.op = "video"]
  /\ fragment' = NoFragment
  /\ UNCHANGED <<constructed, isWebGL2, contexts, shaders, uniforms, rafId, rafQueue,
                 nextHandle, gpu, glUniforms, texture, canvas, dpr, settings, cycles, app>>

\* the environment: the owner of the settings replaces the snapshot
SettingsChange(Snapshots) ==
  /\ \E s \in Snapshots : s # settings /\ settings' = s
  /\ last' = [NoCall EXCEPT !.op = "settings"]
  /\ fragment' = NoFragment
  /\ UNCHANGED <<constructed, isWebGL2, contexts, shaders, uniforms, rafId, rafQueue,
                 nextHandle, gpu, glUniforms, texture, canvas, dpr, video, cycles, app>>

\* gl.drawArrays runs the fragment shader on every pixel of the viewport:
\* one fragment of one eye of the frame just drawn
Shade(Pixels) ==
  /\ last.op \in {"start", "frame"}
  /\ Len(last.draws) = 2
  /\ fragment = NoFragment
  /\ \E k \in 1..2, p \in Pixels :
       fragment' = Fragment(k, p, last.draws[k].u, isWebGL2, last.draws[k].texture)
  /\ UNCHANGED <<constructed, isWebGL2, contexts, shaders, uniforms, rafId, rafQueue,
                 nextHandle, gpu, glUniforms, texture, canvas, dpr, video, settings,
                 cycles, last, app>>

\* ------------------------------------------------------- specifications
\* no App component is mounted: the renderer is driven by a caller of its own
NoApp == [mounted |-> FALSE]

InitRenderer(Sizes, Ratios, Snapshots) ==
  /\ constructed = "none"
  /\ isWebGL2 = FALSE
  /\ contexts = <<>>
  /\ shaders = <<>>
  /\ uniforms = {}
  /\ rafId = 0
  /\ rafQueue = {}
  /\ nextHandle = 1
  /\ gpu = NoGpu
  /\ glUniforms = InitialUniforms
  /\ texture = "none"
  /\ \E w \in Sizes, h \in Sizes :
       canvas = [clientWidth |-> w, clientHeight |-> h, width |-> 300, height |-> 150]
  /\ dpr \in Ratios
  /\ video \in Videos
  /\ settings \in Snapshots
  /\ fragment = NoFragment
  /\ cycles = 0
  /\ last = NoCall

InitWith(Sizes, Ratios, Snapshots) ==
  /\ app = NoApp
  /\ InitRenderer(Sizes, Ratios, Snapshots)

\* the lifecycle: every call, every fault, re-entrant calls from the accessor
LifecycleSizes == {4}
Init == InitWith(LifecycleSizes, {2}, {defaultSettings})
Next ==
  \/ Construct
  \/ Start(Scripts)
  \/ Stop
  \/ AnimationFrame(Scripts)
Spec == Init /\ [][Next]_vars

\* the layout: every client size and pixel ratio, frames in which nothing fails
ClientSizes == (0..MaxClient) \cup {720, 1280}
Ratios == {0, 2, 3, 4}
InitLayout == InitWith(ClientSizes, Ratios, {defaultSettings})
NextLayout ==
  \/ Construct
  \/ Start(QuietScripts)
  \/ Stop
  \/ AnimationFrame(QuietScripts)
SpecLayout == InitLayout /\ [][NextLayout]_vars

\* the uniforms: full snapshots and snapshots with one field left out
FullSnapshots == {defaultSettings, tunedSettings}
PartialSnapshots == {Omit(s, f) : s \in FullSnapshots, f \in Fields}
InitUniforms == InitWith({4}, {2}, FullSnapshots \cup PartialSnapshots)
NextUniforms ==
  \/ Construct
  \/ Start(QuietScripts)
  \/ Stop
  \/ AnimationFrame(QuietScripts)
  \/ VideoChanges
SpecUniforms == InitUniforms /\ [][NextUniforms]_vars

\* the frames: the canvas, the video and the settings change between frames
FrameSizes == {0, 4}
InitFrames == InitWith({4}, {2}, {defaultSettings})
NextFrames ==
  \/ Construct
  \/ Start(QuietScripts)
  \/ Stop
  \/ AnimationFrame(QuietScripts)
  \/ Resize(FrameSizes)
  \/ VideoChanges
  \/ SettingsChange(FullSnapshots)
SpecFrames == InitFrames /\ [][NextFrames]_vars

\* the values: snapshots that differ from the default in the filter mode, in
\* the distortion fields or in the sphere fields
FilterModes == {"none", "amber", "deepblue", "edge"}
OtherFilterModes == {"sepia", ""}
\* <<k1, k2>> and <<sphereDiameter, sphereStrength>>, in 1/1000 of the UI units
Coefficients == {<<35000, 20000>>, <<0, 0>>, <<500, 100000>>, <<100000, 500>>}
Spheres == {<<100000, 0>>, <<50000, 40000>>, <<0, 100000>>, <<200, 1000>>}
ValueSnapshots ==
  {WithField(defaultSettings, "filterMode", f) : f \in FilterModes \cup OtherFilterModes}
    \cup {Omit(defaultSettings, "filterMode")}
    \cup {[defaultSettings EXCEPT !.k1 = c[1], !.k2 = c[2], !.distortionEnabled = e] :
              c \in Coefficients, e \in BOOLEAN}
    \cup {[defaultSettings EXCEPT !.sphereDiameter = d[1], !.sphereStrength = d[2]] :
              d \in Spheres}
InitValues == InitWith({4}, {2}, ValueSnapshots)
NextValues ==
  \/ Construct
  \/ Start(QuietScripts)
  \/ Stop
  \/ AnimationFrame(QuietScripts)
  \/ SettingsChange(ValueSnapshots)
SpecValues == InitValues /\ [][NextValues]_vars

\* the shader: fragments over a grid of the viewport, for snapshots that
\* differ from the default in one group of fields, within the ranges of the
\* controls and at their ends (gamma also at 0 and below)
GridSteps == {0, 300, 500, 650, 1000}
Pixels == {V2(x, y) : x \in GridSteps, y \in GridSteps}
ShaderSnapshots ==
  {defaultSettings, tunedSettings}
    \cup {[defaultSettings EXCEPT !.distortionEnabled = FALSE, !.k1 = c[1], !.k2 = c[2],
                                  !.scale = 700, !.leftOffsetX = 200, !.rightOffsetY = -200] :
              c \in Coefficients}
    \cup {[defaultSettings EXCEPT !.scale = 1700, !.separation = -100]}
    \cup {[defaultSettings EXCEPT !.sphereDiameter = d[1], !.sphereStrength = d[2]] :
              d \in Spheres \cup {<<0, 0>>, <<50000, 0>>, <<50000, 100>>,
                                   <<50000, 1000>>, <<100000, 50000>>, <<100000, 100000>>}}
    \cup {[defaultSettings EXCEPT !.gamma = g, !.contrast = c, !.brightness = c - 1000,
                                  !.shadows = c - 1500, !.highlights = 1500 - c] :
              g \in {-1000, 0, 500, 2500}, c \in {500, 2000}}
    \cup {[defaultSettings EXCEPT !.filterMode = f, !.gamma = 0] : f \in FilterModes}
    \cup {[defaultSettings EXCEPT !.magnifierEnabled = TRUE, !.magnifierZoom = z,
                                  !.calibration = c, !.filterMode = f] :
              z \in {500, 1000, 1600, 3000}, c \in BOOLEAN, f \in {"none", "amber"}}
InitShader == InitWith({4}, {2}, ShaderSnapshots)
NextShader ==
  \/ Construct
  \/ Start(QuietScripts)
  \/ AnimationFrame(QuietScripts)
  \/ Shade(Pixels)
SpecShader == InitShader /\ [][NextShader]_vars

\* ------------------------------------------------ the frame scheduler
\* the last call was a frame callback of the running renderer that an
\* exception left, its accessor having made no call into the renderer
FrameThrew == last.op = "frame" /\ last.threw /\ last.calls = <<>>

\* C1: a frame that throws does not end the loop: after it a callback is
\* pending (the next frame comes by itself), and rafId does not hold a handle
\* that is no longer pending (which would make every later start() return at
\* once).
C1_FrameFailureKeepsLoop ==
  FrameThrew => (rafQueue # {} /\ (rafId # 0 => rafId \in rafQueue))

\* C2: a frame whose settings accessor called stop() runs to its end and is
\* not re-armed: when it has returned no callback is pending and rafId is 0.
C2_StopInsideFrameDoesNotRearm ==
  (last.op = "frame" /\ last.calls = <<"stop">> /\ ~last.threw)
    => (rafQueue = {} /\ rafId = 0)

\* C3: start() on a renderer with a pending frame callback renders no frame
\* and schedules no callback: the pending callbacks stay as they were.
C3_StartIdempotentWhileRunning ==
  [][(rafQueue # {} /\ last'.op = "start")
       => (last'.began = 0 /\ rafQueue' = rafQueue)]_vars

\* C4: after stop() no callback is pending and rafId is 0 (so no frame is
\* rendered before the next start()), and stop() on a stopped renderer
\* changes nothing of the renderer.
C4_StopCancels ==
  [][last'.op = "stop"
       => /\ rafQueue' = {} /\ rafId' = 0
          /\ (rafId = 0 /\ rafQueue = {}
                => UNCHANGED <<rafId, rafQueue, nextHandle, gpu, glUniforms, texture, canvas>>)]_vars

\* ---------------------------------------------------------- the layout
\* the last call ran exactly one frame to its end: both eyes were drawn
OneFrameDrawn == last.completed = 1 /\ Len(last.draws) = 2
LeftViewport == last.draws[1].viewport
RightViewport == last.draws[2].viewport

\* C5: in every frame both eye viewports are at least 1 pixel wide and high,
\* whatever the client size of the canvas (0 included).
C5_EyeSizeAtLeastOne ==
  OneFrameDrawn =>
    \A k \in 1..2 : last.draws[k].viewport[3] >= 1 /\ last.draws[k].viewport[4] >= 1

\* C6 as the spec states it: default settings, pixel ratio 1, a 1280x720
\* canvas: two 360x360 viewports, offsetX 280, offsetY 180.
ScenarioA ==
  /\ OneFrameDrawn
  /\ settings = defaultSettings
  /\ dpr = 2
  /\ canvas.clientWidth = 1280 /\ canvas.clientHeight = 720
  /\ canvas.width = 1280 /\ canvas.height = 720

C6_ScenarioA_AsStated ==
  ScenarioA => /\ LeftViewport = <<280, 180, 360, 360>>
               /\ RightViewport = <<280 + 360, 180, 360, 360>>

\* C6, amended: default settings, pixel ratio 1, a 1280x720 canvas: two
\* 640x640 viewports, offsetX 0, offsetY 40.
C6_ScenarioA ==
  ScenarioA => /\ LeftViewport = <<0, 40, 640, 640>>
               /\ RightViewport = <<640, 40, 640, 640>>

C6_Witness == ScenarioA

\* n = floor(a / 2), said without the division
IsHalfFloor(n, a) == 2 * n <= a /\ a <= 2 * n + 1

\* C7: with W, H the backing size of the canvas, the left eye is drawn in
\* (offX, offY, S, S) and the right eye in (offX + S, offY, S, S), where
\* S = min(H, floor(W/2)), offX = max(0, floor((W - 2S)/2)) and
\* offY = max(0, floor((H - S)/2)).
C7_ViewportLayout ==
  OneFrameDrawn =>
    LET W == canvas.width
        H == canvas.height
        S == LeftViewport[3]
        offX == LeftViewport[1]
        offY == LeftViewport[2]
    IN  /\ S <= H /\ 2 * S <= W /\ (S = H \/ 2 * (S + 1) > W)
        /\ offX >= 0 /\ (W - 2 * S >= 0 => IsHalfFloor(offX, W - 2 * S))
        /\ offY >= 0 /\ (H - S >= 0 => IsHalfFloor(offY, H - S))
        /\ LeftViewport = <<offX, offY, S, S>>
        /\ RightViewport = <<offX + S, offY, S, S>>

\* a frame on a canvas wider than the pair by an odd number of pixels, 3 or more
C7_Witness ==
  /\ OneFrameDrawn
  /\ LeftViewport[1] > 0
  /\ (canvas.width - 2 * LeftViewport[3]) % 2 = 1

Abs(x) == IF x < 0 THEN -x ELSE x

\* C8: the two eye viewports do not overlap, lie inside the canvas, and are
\* centered: the left and right margins differ by at most 1 pixel, and so do
\* the bottom and top margins.
C8_ViewportsDisjointInsideCentered ==
  OneFrameDrawn =>
    LET W == canvas.width
        H == canvas.height
        L == LeftViewport
        R == RightViewport
    IN  /\ W >= 1 /\ H >= 1
        /\ L[1] >= 0 /\ L[2] >= 0 /\ R[2] >= 0
        /\ L[1] + L[3] <= R[1]
        /\ R[1] + R[3] <= W
        /\ L[2] + L[4] <= H /\ R[2] + R[4] <= H
        /\ Abs(L[1] - (W - (R[1] + R[3]))) <= 1
        /\ Abs(L[2] - (H - (L[2] + L[4]))) <= 1

\* a frame on a canvas taller than the eyes and wider than the pair
C8_Witness ==
  /\ OneFrameDrawn
  /\ canvas.width > 2 * LeftViewport[3] + 1
  /\ LeftViewport[3] > 1

\* --------------------------------------------------------- the uniforms
\* the values drawEye passes for one eye of the last frame, had the snapshot been s
ExpectedWrites(k, s) ==
  EyeUniformWrites(IF k = 1 THEN -1 ELSE 1,
                   last.draws[k].viewport[3], last.draws[k].viewport[4],
                   NumField(s, IF k = 1 THEN "leftOffsetX" ELSE "rightOffsetX"),
                   NumField(s, IF k = 1 THEN "leftOffsetY" ELSE "rightOffsetY"),
                   <<VideoWidth, VideoHeight>>, s)

\* C9: a frame drawn from a snapshot that lacks a field F leaves in the
\* program the uniform values of a frame drawn from the same snapshot with F
\* set to defaultSettings.F.
C9_OmittedFieldIsDefault ==
  OneFrameDrawn =>
    \A F \in Fields \ DOMAIN settings :
      \A k \in 1..2 :
        \A n \in uniforms \ {"uTexture", "uTexel"} :
          last.draws[k].u[n] = ExpectedWrites(k, WithField(settings, F, defaultSettings[F]))[n]

\* ------------------------------------------------------- the resources
\* C10: a renderer holds one program, one buffer and one texture (and no
\* shader) from its constructor on: no start(), stop() or frame changes the
\* count, however many cycles there were.
C10_NoAllocationAfterConstructor ==
  constructed = "ok" => gpu = [shaders |-> 0, programs |-> 1, buffers |-> 1, textures |-> 1]

\* a second start()/stop() cycle has ended, video frames having been uploaded
C10_Witness ==
  constructed = "ok" /\ cycles >= 2 /\ last.op = "stop" /\ texture = "video"

\* ------------------------------------------------------ the constructor
\* C11: a constructor in which shader creation or compilation, program
\* creation or linking, or buffer or texture allocation fails throws: no
\* instance exists, the error has a text (for a compile or link failure the
\* info log of the driver, when it gives one), and no animation-frame
\* callback is scheduled, then or later.
C11_ConstructionFailureIsFatal ==
  (constructed = "failed" /\ last.cause \in ConstructFailures \ {"none"}) =>
    /\ last.op = "construct" /\ last.threw
    /\ last.error # ""
    /\ (last.cause \in {"compileVertex", "compileFragment", "link"} /\ last.infoLog # "null"
          => last.error = last.infoLog)
    /\ rafQueue = {} /\ rafId = 0 /\ nextHandle = 1

\* the program failed to link and the driver gave an info log
C11_Witness ==
  constructed = "failed" /\ last.cause = "link" /\ last.infoLog # "null"

\* the shader sources of each tier
WebGL2Pair == <<"vertexWebGL2", "fragmentWebGL2">>
WebGL1Pair == <<"vertexWebGL1", "fragmentWebGL1">>
IsPrefix(a, b) == Len(a) <= Len(b) /\ \A k \in 1..Len(a) : a[k] = b[k]

\* C12: the constructor asks for "webgl2" first.  When that gives a context
\* it asks for nothing else and compiles only the WebGL2 pair; when it gives
\* none the constructor asks for "webgl", and with that context compiles
\* only the WebGL1 pair; with no context at all it throws and compiles
\* nothing.  A renderer that exists runs the whole pair of its tier.
C12_ProgramSelection ==
  constructed # "none" =>
    /\ contexts[1].id = "webgl2"
    /\ (contexts[1].got
          => Len(contexts) = 1 /\ isWebGL2 /\ IsPrefix(shaders, WebGL2Pair))
    /\ (~contexts[1].got
          => /\ Len(contexts) = 2 /\ contexts[2].id = "webgl" /\ ~isWebGL2
             /\ (contexts[2].got => IsPrefix(shaders, WebGL1Pair))
             /\ (~contexts[2].got
                   => /\ constructed = "failed" /\ shaders = <<>>
                      /\ last.error = "WebGL is not supported on this device."))
    /\ (constructed = "ok"
          => shaders = (IF isWebGL2 THEN WebGL2Pair ELSE WebGL1Pair))

\* a renderer built on the fallback context
C12_Witness ==
  constructed = "ok" /\ ~contexts[1].got /\ contexts[2].got /\ shaders = WebGL1Pair

\* ------------------------------------------------------------ the video
Logged(call, what) == \E k \in DOMAIN call.log : call.log[k] = what

\* C13: a frame that finds the video without a decoded frame (readyState
\* below HAVE_CURRENT_DATA) uploads nothing and leaves the texture as it was,
\* throws nothing, draws both eyes from that texture, and schedules the next
\* frame.
C13_VideoNotReadySkipsUpload ==
  [][(last'.op \in {"start", "frame"} /\ last'.began = 1
        /\ video.readyState < HAVE_CURRENT_DATA)
       => /\ ~last'.threw
          /\ ~Logged(last', "upload")
          /\ texture' = texture
          /\ Len(last'.draws) = 2
          /\ last'.draws[1].eye = "left" /\ last'.draws[2].eye = "right"
          /\ \A k \in 1..2 : last'.draws[k].texture = texture
          /\ last'.completed = 1
          /\ rafId' = nextHandle /\ rafId' \in rafQueue']_vars

\* a frame drawn from a stale video frame: the video had delivered frames
\* and then stopped
C13_Witness ==
  /\ last.op = "frame" /\ Len(last.draws) = 2
  /\ video.readyState < HAVE_CURRENT_DATA
  /\ texture = "video"
  /\ Logged(last, "skipUpload")

\* ----------------------------------------------------------- the values
\* the filterMode of the snapshot, "" standing for a snapshot without one
ModeOf(s) == IF "filterMode" \in DOMAIN s THEN s.filterMode ELSE ""

\* C14: both eyes of a frame are drawn with uFilterMode 0 for "none", 1 for
\* "amber", 2 for "deepblue", 3 for "edge", and 0 for every other value of
\* filterMode and for a snapshot without filterMode.
C14_FilterModeMapping ==
  OneFrameDrawn =>
    LET mode == ModeOf(settings)
        code == CASE mode = "none" -> 0
                  [] mode = "amber" -> 1
                  [] mode = "deepblue" -> 2
                  [] mode = "edge" -> 3
                  [] OTHER -> 0
    IN  \A k \in 1..2 : last.draws[k].u["uFilterMode"] = V(code * 1000)

\* a frame drawn with a filterMode that is none of the four
C14_Witness ==
  /\ OneFrameDrawn
  /\ ModeOf(settings) = "sepia"
  /\ last.draws[2].u["uFilterMode"] = V(0)

\* C15: both eyes of a frame are drawn with uK1 = k1 / 10 and uK2 = k2 / 10,
\* whether distortionEnabled is set or not; the defaults k1 = 35, k2 = 20
\* give 3.5 and 2.0.
C15_DistortionScale ==
  (OneFrameDrawn /\ {"k1", "k2"} \subseteq DOMAIN settings) =>
    \A k \in 1..2 :
      LET u == last.draws[k].u
      IN  /\ ~u["uK1"].nan /\ 10 * u["uK1"].v = settings.k1
          /\ ~u["uK2"].nan /\ 10 * u["uK2"].v = settings.k2
          /\ (settings.k1 = 35000 => u["uK1"] = V(3500))
          /\ (settings.k2 = 20000 => u["uK2"] = V(2000))

\* a frame drawn with the default coefficients and the distortion disabled
C15_Witness ==
  /\ OneFrameDrawn
  /\ "distortionEnabled" \in DOMAIN settings /\ ~settings.distortionEnabled
  /\ settings.k1 = 35000 /\ settings.k2 = 20000
  /\ last.draws[1].u["uK1"] = V(3500) /\ last.draws[1].u["uK2"] = V(2000)

\* C16: both eyes of a frame are drawn with uSphereRadius = 0.5 *
\* sphereDiameter / 100 and uSphereStrength = sphereStrength / 100;
\* sphereDiameter 100 gives 0.5 and sphereDiameter 50 gives 0.25.
C16_SphereUnits ==
  (OneFrameDrawn /\ {"sphereDiameter", "sphereStrength"} \subseteq DOMAIN settings) =>
    \A k \in 1..2 :
      LET u == last.draws[k].u
      IN  /\ ~u["uSphereRadius"].nan /\ 200 * u["uSphereRadius"].v = settings.sphereDiameter
          /\ ~u["uSphereStrength"].nan /\ 100 * u["uSphereStrength"].v = settings.sphereStrength
          /\ (settings.sphereDiameter = 100000 => u["uSphereRadius"] = V(500))
          /\ (settings.sphereDiameter = 50000 => u["uSphereRadius"] = V(250))

\* a frame drawn with sphereDiameter 50 and a sphere strength above 0
C16_Witness ==
  /\ OneFrameDrawn
  /\ settings.sphereDiameter = 50000 /\ settings.sphereStrength = 40000
  /\ last.draws[2].u["uSphereRadius"] = V(250)
  /\ last.draws[2].u["uSphereStrength"] = V(400)

\* ----------------------------------------------------------- the shader
\* a fragment of the frame just drawn has been computed
Shaded == fragment # NoFragment
\* the uniforms the fragment was drawn with
FragmentUniforms == last.draws[fragment.eye].u
Defined2(a) == ~a[1].nan /\ ~a[2].nan
Defined3(c) == ~c[1].nan /\ ~c[2].nan /\ ~c[3].nan

C18_SphereStrengthZeroIsNoOp ==
  (Shaded /\ settings.sphereStrength = 0) =>
    /\ Defined2(fragment.distorted)
    /\ fragment.warped = fragment.distorted

\* a fragment inside the sphere of a frame drawn with sphereStrength = 0 and
\* a diameter below the default, where an active sphere stage moves the coordinate
C18_Witness ==
  /\ Shaded
  /\ settings.sphereStrength = 0 /\ settings.sphereDiameter = 50000
  /\ fragment.vUV = V2(650, 500)
  /\ SphereBlend(fragment.distorted, fragment.vUV, fragment.center, FragmentUniforms)
       # fragment.distorted

InUnit(x) == ~x.nan /\ 0 <= x.v /\ x.v <= 1000

\* C19: for every snapshot, gamma = 0 and gamma < 0 included, the exponent of
\* the gamma curve is the number 1 / max(gamma, 0.001), and every channel of
\* the color of the fragment (after grading, filter, magnifier and
\* calibration) is a number in [0, 1].
C19_ColorInRange ==
  Shaded =>
    /\ ~fragment.exponent.nan
    /\ fragment.exponent.v = Round(1000 * 1000, Max2(settings.gamma, 1))
    /\ \A c \in 1..3 : InUnit(fragment.graded[c]) /\ InUnit(fragment.color[c])

\* a fragment of the video drawn with gamma = 0
C19_Witness ==
  /\ Shaded
  /\ settings.gamma = 0
  /\ last.draws[fragment.eye].texture = "video"
  /\ fragment.exponent = V(1000000)

\* the fragment lies fully inside the rounded rectangle of the magnifier
InsideMagnifier == MagnifierMask(fragment.vUV) = V(1000)

\* center + (warped - center) / max(z, 1)
ZoomedCoordinate ==
  LET z == Max2(settings.magnifierZoom, 1000)
  IN  <<V(fragment.center[1].v + Round((fragment.warped[1].v - fragment.center[1].v) * 1000, z)),
        V(fragment.center[2].v + Round((fragment.warped[2].v - fragment.center[2].v) * 1000, z))>>

C26_AtMostOnePending ==
  /\ Cardinality(rafQueue) <= 1
  /\ (rafId # 0 <=> rafQueue # {})

\* ------------------------------------------------- the frame, step by step
\* the last call ran one frame, from its first step to the re-arm
OneFrameRun(call) == call.op \in {"start", "frame"} /\ call.began = 1 /\ call.completed = 1

\* C22: a frame calls gl.uniform* for no uniform whose location is null
\* (uTemperature and uMagnifySize, which no shader declares, among them),
\* calls it for every uniform that has a location, and issues both draws.
C22_UniformWritesGuarded ==
  OneFrameRun(last) =>
    /\ last.written \cap (UniformNames \ uniforms) = {}
    /\ last.written \cap {"uTemperature", "uMagnifySize"} = {}
    /\ last.written = uniforms \ {"uTexture"}
    /\ Len(last.draws) = 2

\* a frame of a renderer whose program has no uTemperature and no uMagnifySize
C22_Witness ==
  /\ OneFrameRun(last)
  /\ {"uTemperature", "uMagnifySize"} \cap uniforms = {}
  /\ "uContrast" \in last.written
  /\ Len(last.draws) = 2

\* the steps of a frame after the resize
FrameSteps(upload) ==
  <<"clear", upload, "layout",
    "viewport:left", "uniforms:left", "draw:left",
    "viewport:right", "uniforms:right", "draw:right", "raf">>

\* C23: a completed frame assigns the backing size exactly when it differs
\* from the displayed size, then clears, uploads the video frame (or skips
\* the upload), computes the layout, sets the left eye's viewport and
\* uniforms and draws it, does the same for the right eye, and re-arms: two
\* draws, left before right, the upload before both.
C23_FrameStepOrder ==
  [][OneFrameRun(last') =>
       LET resized == canvas'.width # canvas.width \/ canvas'.height # canvas.height
           upload == IF video.readyState < HAVE_CURRENT_DATA THEN "skipUpload" ELSE "upload"
       IN  /\ last'.log = (IF resized THEN <<"resize">> ELSE <<>>) \o FrameSteps(upload)
           /\ Len(last'.draws) = 2
           /\ last'.draws[1].eye = "left" /\ last'.draws[2].eye = "right"
           /\ canvas'.width = DisplaySize(canvas.clientWidth)
           /\ canvas'.height = DisplaySize(canvas.clientHeight)]_vars

\* a frame callback that found the canvas at a new size and a video frame to upload
C23_Witness ==
  /\ OneFrameRun(last) /\ last.op = "frame"
  /\ last.log[1] = "resize" /\ last.log[3] = "upload"
  /\ canvas.clientWidth = 0

\* the uniforms that differ between the eyes of a frame, and the sampler
PerEyeUniforms == {"uOffset", "uEyeSign", "uResolution", "uTexture"}

\* the values drawEye passes from the snapshot s (the per-eye arguments left out)
SharedWrites(s) ==
  EyeUniformWrites(1, 0, 0, V(0), V(0), <<VideoWidth, VideoHeight>>, s)

\* C24: a frame calls the settings accessor once and never changes the
\* snapshot; both eyes are drawn with the values of that snapshot, the one
\* current at the frame: all uniforms but uOffset, uEyeSign and uResolution
\* are the same for both eyes, the left eye has uEyeSign -1 and
\* leftOffsetX/Y, the right eye uEyeSign +1 and rightOffsetX/Y.
C24_OneSnapshotPerFrame ==
  [][OneFrameRun(last') =>
       LET left == last'.draws[1].u
           right == last'.draws[2].u
       IN  /\ last'.reads = 1
           /\ settings' = settings
           /\ \A n \in uniforms \ PerEyeUniforms :
                /\ left[n] = right[n]
                /\ (n # "uTexel" => left[n] = SharedWrites(settings)[n])
           /\ left["uEyeSign"] = V(-1000) /\ right["uEyeSign"] = V(1000)
           /\ left["uOffset"] = <<V(settings.leftOffsetX), V(settings.leftOffsetY)>>
           /\ right["uOffset"] = <<V(settings.rightOffsetX), V(settings.rightOffsetY)>>]_vars

\* a frame callback drawn after the owner replaced the default snapshot
C24_Witness ==
  /\ OneFrameRun(last) /\ last.op = "frame"
  /\ settings = tunedSettings
  /\ last.draws[1].u["uOffset"] = <<V(10), V(-10)>>
  /\ last.draws[2].u["uOffset"] = <<V(-20), V(30)>>
  /\ last.draws[1].u["uContrast"] = V(1200)

\* ---------------------------------------------------- the sphere feather
\* the sphere stage is active for the fragment (strength above 0.001)
SphereActive == Shaded /\ FragmentUniforms["uSphereStrength"].v > 1
Strength == Min2(FragmentUniforms["uSphereStrength"].v, 1000)

\* C25 as the spec states it: at the lowest active strength the mask is a
\* hard cutoff (1 up to the sphere boundary normR = 1, 0 beyond it), and at
\* strength 1 the feather is the widest, 0.45.
C25_FeatherAsStated ==
  SphereActive =>
    /\ (Strength <= 10 => fragment.mask \in {V(0), V(1000)})
    /\ (Strength = 1000 => fragment.feather = V(450))

\* C25, amended: the feather is 0.45 * (1 - sphereStrength): the mask is
\* softest at the lowest active strength (feather close to 0.45, the mask
\* falling from 1 at normR = 1 - feather to 0 at normR = 1) and a hard
\* cutoff at the sphere boundary at strength 1 (1 for normR <= 1, 0 beyond).
C25_FeatherShrinksWithStrength ==
  SphereActive =>
    /\ ~fragment.feather.nan /\ ~fragment.mask.nan /\ ~fragment.normR.nan
    /\ fragment.feather.v = Round(450 * (1000 - Strength), 1000)
    /\ (Strength = 1000
          => fragment.mask = (IF fragment.normR.v <= 1000 THEN V(1000) ELSE V(0)))
    /\ (Strength < 1000
          => /\ (fragment.normR.v <= 1000 - fragment.feather.v => fragment.mask = V(1000))
             /\ (fragment.normR.v >= 1000 => fragment.mask = V(0))
             /\ ((1000 - fragment.feather.v < fragment.normR.v /\ fragment.normR.v < 1000)
                   => (0 <= fragment.mask.v /\ fragment.mask.v <= 1000)))

\* a fragment in the feather band at the lowest active strength: the mask is
\* strictly between 0 and 1
C25_Witness ==
  /\ SphereActive
  /\ Strength = 10
  /\ 0 < fragment.mask.v /\ fragment.mask.v < 1000

\* =====================================================================
\* App (src/unnamed/part_000, from line 613): the component that owns the
\* camera stream, the renderer, the settings and the overlays.
\* =====================================================================
\* the canvas elements React mounts over a run: one per landscape period
MaxElement == 2
\* the applyNativeZoom calls the scale slider may leave in flight at once
MaxZoom == 2

\* ------------------------------------------------- persisted settings
\* an item of localStorage: absent, text that is not JSON, or the JSON text
\* of a value (a finite number, a boolean and a string are written and read
\* back unchanged by JSON.stringify / JSON.parse)
AbsentItem == [text |-> "absent"]
CorruptItem == [text |-> "corrupt"]
JsonStringify(value) == [text |-> "json", value |-> value]
JsonParses(item) == item.text = "json"
JsonParse(item) == item.value

\* normalizeSettings: values are in thousandths, so "<= 1" is "<= 1000"
normalizeSettings(partial) ==
  LET merged == [f \in Fields |-> IF f \in DOMAIN partial THEN partial[f] ELSE defaultSettings[f]]
  IN  IF merged.k1 <= 1000 /\ merged.k2 <= 1000
        THEN [merged EXCEPT !.k1 = @ * 100, !.k2 = @ * 100]
        ELSE merged

\* loadSettings
loadSettings(item) ==
  IF item = AbsentItem THEN defaultSettings
  ELSE IF ~JsonParses(item) THEN defaultSettings
  ELSE normalizeSettings(JsonParse(item))

\* defaultPresets: the settings of the three slots
defaultPresets ==
  <<normalizeSettings(defaultSettings),
    normalizeSettings([defaultSettings EXCEPT !.filterMode = "amber", !.contrast = 1100,
                                              !.temperature = 250, !.highlights = -100,
                                              !.shadows = 150]),
    normalizeSettings([defaultSettings EXCEPT !.filterMode = "deepblue", !.contrast = 1150,
                                              !.gamma = 1050, !.temperature = -100])>>

\* loadPresets: the stored array is read slot by slot
loadPresets(item) ==
  IF item = AbsentItem THEN defaultPresets
  ELSE IF ~JsonParses(item) THEN defaultPresets
  ELSE LET parsed == JsonParse(item)
       IN  IF Len(parsed) = 0 THEN defaultPresets
           ELSE [index \in DOMAIN defaultPresets |->
                   IF index \in DOMAIN parsed
                     THEN normalizeSettings(parsed[index])
                     ELSE defaultPresets[index]]

\* ------------------------------------------------------- the component
\* the page before App is mounted: only localStorage exists.  saved and
\* savedPresets remember what the UI showed when the page was closed.
UnmountedApp(storage, presetStorage, saved, savedPresets) ==
  [mounted |-> FALSE, storage |-> storage, presetStorage |-> presetStorage,
   saved |-> saved, savedPresets |-> savedPresets]

\* the state hooks of App: a change of one of them renders again
ReactState(a) ==
  <<a.settings, a.presetSlots, a.uiMode, a.settingsVisible, a.startupMenuVisible,
    a.vrMenuVisible, a.isRunning, a.error, a.isLandscape>>

\* ------------------------------------------------------------ overlays
resetSettingsTimer(a) == [a EXCEPT !.settingsTimeout = TRUE]

openSettings(c, a) ==
  IF c.startupMenuVisible THEN a
  ELSE resetSettingsTimer([a EXCEPT !.settingsVisible = TRUE])

closeSettings(a) == [a EXCEPT !.settingsVisible = FALSE, !.settingsTimeout = FALSE]

resetMenuTimer(a) == [a EXCEPT !.menuTimeout = TRUE]

showVrMenu(a) == resetMenuTimer([a EXCEPT !.vrMenuVisible = TRUE])

hideVrMenu(a) == [a EXCEPT !.vrMenuVisible = FALSE, !.menuTimeout = FALSE]

handleGestureReveal(c, a) ==
  IF c.startupMenuVisible \/ c.settingsVisible \/ ~c.isRunning THEN a
  ELSE showVrMenu(closeSettings(a))

\* handleWheel with a movement above the threshold
handleWheel(c, a) ==
  IF c.settingsVisible \/ c.startupMenuVisible \/ ~c.isRunning THEN a
  ELSE IF c.vrMenuVisible THEN resetMenuTimer(a)
  ELSE handleGestureReveal(c, a)

\* applyPreset(presetId, options)
applyPreset(c, a, presetId, keepSettings) ==
  LET a1 == hideVrMenu([a EXCEPT !.settings = c.presetSlots[presetId],
                                 !.startupMenuVisible = FALSE])
  IN  IF keepSettings THEN resetSettingsTimer(a1) ELSE closeSettings(a1)

\* savePreset(presetId): settingsRef.current is the rendered settings
savePreset(c, a, presetId) ==
  [a EXCEPT !.presetSlots = [@ EXCEPT ![presetId] = c.settings]]

\* -------------------------------------------------- the renderer in use
\* GLRenderer.stop of the instance r
RendererStop(a, r) ==
  LET m == StopOp([rafId |-> a.renderers[r].rafId, rafQueue |-> a.rafQueue,
                   nextHandle |-> a.nextHandle])
  IN  [a EXCEPT !.renderers[r].rafId = m.rafId, !.rafQueue = m.rafQueue]

\* GLRenderer.render of the instance r: a frame that throws asks for no other
RendererRender(a, r, throws) ==
  IF throws THEN a
  ELSE LET m == RequestAnimationFrame([rafId |-> a.renderers[r].rafId,
                                       rafQueue |-> a.rafQueue,
                                       nextHandle |-> a.nextHandle])
       IN  [a EXCEPT !.renderers[r].rafId = m.rafId, !.rafQueue = m.rafQueue,
                     !.nextHandle = m.nextHandle,
                     !.owner = Append(@, r)]

\* GLRenderer.start of the instance r
RendererStart(a, r, throws) ==
  IF a.renderers[r].rafId # 0 THEN a ELSE RendererRender(a, r, throws)

\* the instances that have a frame callback pending
Pending(a) == {a.owner[h] : h \in a.rafQueue}

\* ------------------------------------------------------------ the camera
\* stream.getTracks().forEach((track) => track.stop())
StopTracks(a, s) == [a EXCEPT !.streams[s].live = FALSE]

\* (mutant) handleStop leaves the frame loop of the renderer running
handleStopKeepsLoop(a) ==
  LET a2 == IF a.streamRef = 0 THEN a ELSE StopTracks(a, a.streamRef)
  IN  [a2 EXCEPT !.streamRef = 0, !.opticalZoom = 1000,
                 !.effectiveScale = a.settings.scale,
                 !.isRunning = FALSE, !.stopped = TRUE]

\* handleStop (settingsRef.current is the rendered settings: the effect of
\* lines 960-962 assigns it in every commit)
handleStop(a) ==
  LET a1 == IF a.rendererRef = 0 THEN a ELSE RendererStop(a, a.rendererRef)
      a2 == IF a1.streamRef = 0 THEN a1 ELSE StopTracks(a1, a1.streamRef)
  IN  [a2 EXCEPT !.streamRef = 0, !.opticalZoom = 1000,
                 !.effectiveScale = a.settings.scale,
                 !.isRunning = FALSE, !.stopped = TRUE]

\* no applyConstraints call: the track has no zoom capability, or there is no track
NoZoomCall == [safeDesired |-> 0, track |-> 0, snapped |-> 0]

\* Math.round(clamped / step) * step
Snap(clamped, step) == IF step > 0 THEN Round(clamped, step) * step ELSE clamped

\* applyNativeZoom up to its await: the call it leaves in flight, if any
ZoomRequest(a, desiredScale) ==
  LET safeDesired == Max2(1000, desiredScale)
      caps == a.zoomCaps
  IN  IF a.streamRef = 0 \/ ~caps.zoom THEN NoZoomCall
      ELSE [safeDesired |-> safeDesired, track |-> a.streamRef,
            snapped |-> Snap(Min2(caps.max, Max2(caps.min, safeDesired)), caps.step)]

\* applyNativeZoom when it returns without awaiting
ZoomUnsupported(a, desiredScale) ==
  [a EXCEPT !.opticalZoom = 1000, !.effectiveScale = Max2(1000, desiredScale)]

\* applyNativeZoom after its await: applyConstraints resolved or rejected
ZoomSettled(a, call, resolved) ==
  LET a1 == IF resolved THEN [a EXCEPT !.streams[call.track].zoom = call.snapped] ELSE a
      applied == a1.streams[call.track].zoom
      opticalZoom == IF resolved THEN applied ELSE 1000
      optical == IF opticalZoom = 0 THEN 1000 ELSE opticalZoom
  IN  [a1 EXCEPT !.opticalZoom = opticalZoom,
                 !.effectiveScale = (call.safeDesired * 1000) \div optical]

\* applyNativeZoom called and not awaited (the scale effect)
applyNativeZoom(a, desiredScale) ==
  LET call == ZoomRequest(a, desiredScale)
  IN  IF call = NoZoomCall THEN ZoomUnsupported(a, desiredScale)
      ELSE [a EXCEPT !.zooms = Append(@, call)]

\* handleStart up to its first await
handleStart(c, a) ==
  LET a1 == [a EXCEPT !.error = "null"]
  IN  IF ~a.supportsCamera THEN [a1 EXCEPT !.error = "unsupported"]
      ELSE IF c.isRunning THEN a1
      ELSE [a1 EXCEPT !.starts = Append(@, [pc |-> "getUserMedia", stream |-> 0,
                                             video |-> 0, zoom |-> NoZoomCall]),
                      !.stopped = FALSE]

\* the catch block of handleStart
StartFailed(a) == [a EXCEPT !.error = "error", !.isRunning = FALSE]

\* handleStart from the canvas test to its end
StartFinish(a, fault) ==
  IF a.canvasRef = 0 THEN StartFailed(a)
  ELSE IF a.rendererRef = 0 /\ fault = "constructor" THEN StartFailed(a)
  ELSE LET a1 == IF a.rendererRef # 0 THEN a
                 ELSE [a EXCEPT !.renderers = Append(@, [canvas |-> a.canvasRef, rafId |-> 0]),
                                !.rendererRef = Len(a.renderers) + 1]
           willRender == a1.renderers[a1.rendererRef].rafId = 0
           a2 == RendererStart(a1, a1.rendererRef, fault = "render")
       IN  IF willRender /\ fault = "render" THEN StartFailed(a2)
           ELSE [a2 EXCEPT !.isRunning = TRUE]

\* ------------------------------------------------------------- effects
\* the commit: the orientation screen has no canvas and no video element
CommitDom(a) ==
  IF ~a.isLandscape THEN [a EXCEPT !.canvasRef = 0, !.videoRef = 0]
  ELSE IF a.canvasRef # 0 THEN a
  ELSE [a EXCEPT !.canvasRef = a.nextElement, !.videoRef = a.nextElement,
                 !.nextElement = @ + 1]

\* the effect of lines 1351-1360
OrientationEffect(c, a) ==
  IF c.isLandscape THEN a
  ELSE closeSettings([handleStop(a) EXCEPT !.rendererRef = 0,
                                           !.autoStart = FALSE,
                                           !.startupMenuVisible = TRUE,
                                           !.vrMenuVisible = FALSE])

\* the effect of lines 1362-1368
ScaleEffect(c, a) ==
  IF ~c.isRunning THEN [a EXCEPT !.effectiveScale = c.settings.scale]
  ELSE applyNativeZoom(a, c.settings.scale)

\* the effect of lines 1370-1374
SettingsTimerEffect(c, a) == IF c.settingsVisible THEN resetSettingsTimer(a) ELSE a

\* the effect of lines 1382-1387
StartupMenuEffect(c, a) == IF c.startupMenuVisible THEN hideVrMenu(closeSettings(a)) ELSE a

\* the effect of lines 1396-1400
UiModeEffect(c, a) == IF c.uiMode # "vr" THEN hideVrMenu(a) ELSE a

\* the effect of lines 1402-1411
AutoStartEffect(c, a) ==
  IF ~c.isLandscape \/ a.autoStart THEN a
  ELSE handleStart(c, [a EXCEPT !.autoStart = TRUE])

\* whether a dependency of an effect differs from the previous render p
\* (every effect runs after the first render)
Changed(p, c, f) == ~p.mounted \/ p[f] # c[f]

\* one commit of the render c: the effects whose dependencies changed, in
\* the order of the source; each reads the state of c and the refs as the
\* effects before it left them
EffectsOfCommit(p, c) ==
  LET s0 == {CommitDom(c)}
      s1 == {IF Changed(p, c, "settings")
               THEN [a EXCEPT !.storage = JsonStringify(c.settings)] ELSE a : a \in s0}
      s2 == {IF Changed(p, c, "presetSlots")
               THEN [a EXCEPT !.presetStorage = JsonStringify(c.presetSlots)] ELSE a : a \in s1}
      s3 == {IF Changed(p, c, "isLandscape") THEN OrientationEffect(c, a) ELSE a : a \in s2}
      s4 == {IF Changed(p, c, "isRunning") \/ p.settings.scale # c.settings.scale
               THEN ScaleEffect(c, a) ELSE a : a \in s3}
      s5 == {IF Changed(p, c, "settingsVisible") THEN SettingsTimerEffect(c, a) ELSE a : a \in s4}
      s6 == {IF Changed(p, c, "startupMenuVisible") THEN StartupMenuEffect(c, a) ELSE a : a \in s5}
      s7 == {IF Changed(p, c, "uiMode") THEN UiModeEffect(c, a) ELSE a : a \in s6}
  IN  {IF Changed(p, c, "isLandscape") \/ Changed(p, c, "isRunning")
         THEN AutoStartEffect(c, a) ELSE a : a \in s7}

\* React after a handler: it renders c, runs the effects of the commit, and
\* renders again while an effect has set state
RECURSIVE RunEffects(_, _)
Settled(p, c) ==
  UNION {IF ReactState(a) = ReactState(c) THEN {a} ELSE {RunEffects(c, a)} :
           a \in EffectsOfCommit(p, c)}

RunEffects(p, c) ==
  CHOOSE a \in UNION {Settled(pv, cv) : pv \in {p}, cv \in {c}} : TRUE

\* ------------------------------------------------------------ the actions
\* the variables of the renderer under verification: App leaves them alone
rendererVars ==
  <<constructed, isWebGL2, contexts, shaders, uniforms, rafId, rafQueue, nextHandle, gpu,
    glUniforms, texture, canvas, dpr, video, settings, fragment, cycles, last>>

\* track.getCapabilities().zoom of the camera: none, or a range
NoZoomCaps == [zoom |-> FALSE, min |-> 0, max |-> 0, step |-> 0]
SteppedZoomCaps == [zoom |-> TRUE, min |-> 1000, max |-> 2000, step |-> 500]

\* what the page showed when it was last closed is remembered up to the
\* end of the next load
NoSaved == [known |-> FALSE, settings |-> defaultSettings]
NoSavedPresets == [known |-> FALSE, presetSlots |-> defaultPresets]

\* a handler ran: React renders, runs the effects, and the page is at rest
Handled(a, op) ==
  /\ app' = IF op = "mount" THEN RunEffects(app, a)
            ELSE [RunEffects(app, a) EXCEPT !.op = op, !.saved = NoSaved,
                                            !.savedPresets = NoSavedPresets]
  /\ UNCHANGED rendererVars

\* the UI is on screen (the orientation screen replaces it in portrait)
Shown == app.mounted /\ app.isLandscape

RemoveAt(s, i) == [k \in 1..(Len(s) - 1) |-> IF k < i THEN s[k] ELSE s[k + 1]]

\* the page loads: App() renders for the first time
Mount(Landscapes, Supports, Caps) ==
  /\ ~app.mounted
  /\ \E landscape \in Landscapes, support \in Supports, caps \in Caps :
       LET loaded == loadSettings(app.storage)
       IN  Handled([mounted |-> TRUE, storage |-> app.storage,
                    presetStorage |-> app.presetStorage,
                    saved |-> app.saved, savedPresets |-> app.savedPresets,
                    settings |-> loaded,
                    presetSlots |-> loadPresets(app.presetStorage),
                    uiMode |-> "settings", settingsVisible |-> FALSE,
                    startupMenuVisible |-> TRUE, vrMenuVisible |-> FALSE,
                    settingsTimeout |-> FALSE, menuTimeout |-> FALSE,
                    isRunning |-> FALSE, error |-> "null", isLandscape |-> landscape,
                    supportsCamera |-> support, zoomCaps |-> caps, autoStart |-> FALSE,
                    canvasRef |-> 0, videoRef |-> 0, nextElement |-> 1,
                    rendererRef |-> 0, renderers |-> <<>>, rafQueue |-> {}, owner |-> <<>>,
                    nextHandle |-> 1, streamRef |-> 0, streams |-> <<>>,
                    starts |-> <<>>, zooms |-> <<>>,
                    opticalZoom |-> 1000, effectiveScale |-> loaded.scale,
                    stopped |-> FALSE, loaded |-> JsonParses(app.storage),
                    op |-> "mount"], "mount")

\* the page is closed: only localStorage is left
Unload ==
  /\ app.mounted
  /\ app' = UnmountedApp(app.storage, app.presetStorage,
                         [known |-> TRUE, settings |-> app.settings],
                         [known |-> TRUE, presetSlots |-> app.presetSlots])
  /\ UNCHANGED rendererVars

\* a slider of the settings panel: updateSettings(patch)
UpdateSettings(Patches) ==
  /\ Shown /\ app.settingsVisible
  /\ \E patch \in Patches :
       /\ app.settings[patch.field] # patch.value
       /\ (patch.field = "scale" /\ app.isRunning) => Len(app.zooms) < MaxZoom
       /\ Handled(resetSettingsTimer([app EXCEPT !.settings[patch.field] = patch.value]),
                  "updateSettings")

\* the settings button of the HUD
SettingsButton ==
  /\ Shown
  /\ Handled(IF app.settingsVisible THEN closeSettings(app) ELSE openSettings(app, app),
             "settingsButton")

\* the mode button of the top bar
ModeButton ==
  /\ Shown
  /\ LET next == IF app.uiMode = "settings" THEN "vr" ELSE "settings"
         a == IF next = "settings" THEN openSettings(app, app) ELSE closeSettings(app)
     IN  Handled([a EXCEPT !.uiMode = next], "modeButton")

\* a wheel or touch movement over the stage
Gesture ==
  /\ Shown
  /\ Handled(handleWheel(app, app), "gesture")

\* a press on the VR menu outside its grid
VrMenuPointerDown ==
  /\ Shown /\ app.vrMenuVisible
  /\ Handled(hideVrMenu(app), "vrMenuPointerDown")

\* the settings button of the VR menu
VrMenuSettingsButton ==
  /\ Shown /\ app.vrMenuVisible
  /\ Handled(openSettings(app, hideVrMenu(app)), "vrMenuSettings")

\* a preset button: of the startup menu, of the VR menu, or of the panel
ApplyPresetClick(Slots) ==
  /\ Shown
  /\ \E presetId \in Slots :
       \/ /\ app.startupMenuVisible \/ app.vrMenuVisible
          /\ Handled(applyPreset(app, app, presetId, FALSE), "applyPreset")
       \/ /\ app.settingsVisible
          /\ Handled(applyPreset(app, app, presetId, TRUE), "applyPreset")

\* the save button of a preset slot in the panel
SavePresetClick(Slots) ==
  /\ Shown /\ app.settingsVisible
  /\ \E presetId \in Slots :
       /\ app.presetSlots[presetId] # app.settings
       /\ Handled(savePreset(app, app, presetId), "savePreset")

\* handleStagePointerDown: a press outside the panel and its button
StagePointerDown ==
  /\ Shown /\ app.settingsVisible
  /\ Handled(closeSettings(app), "stagePointerDown")

\* the 10 s timer of the panel fires
SettingsTimeout ==
  /\ app.mounted /\ app.settingsTimeout
  /\ Handled([app EXCEPT !.settingsVisible = FALSE, !.settingsTimeout = FALSE], "settingsTimeout")

\* the 10 s timer of the VR menu fires
MenuTimeout ==
  /\ app.mounted /\ app.menuTimeout
  /\ Handled([app EXCEPT !.vrMenuVisible = FALSE, !.menuTimeout = FALSE], "menuTimeout")

\* the device is turned: the listener of lines 999-1005 sets isLandscape
OrientationChange ==
  /\ app.mounted
  /\ (~app.isLandscape) => app.nextElement <= MaxElement
  /\ Handled([app EXCEPT !.isLandscape = ~@], "orientation")

\* getUserMedia settles: handleStart goes on to video.play(), or to its catch
GetUserMediaSettles(Outcomes) ==
  /\ app.mounted
  /\ \E i \in DOMAIN app.starts, resolved \in Outcomes :
       /\ app.starts[i].pc = "getUserMedia"
       /\ LET stream == Len(app.streams) + 1
              a1 == [app EXCEPT !.streams = Append(@, [live |-> TRUE, zoom |-> 1000]),
                                !.streamRef = stream]
          IN  IF ~resolved
                THEN Handled(StartFailed([app EXCEPT !.starts = RemoveAt(@, i)]), "startFailed")
              ELSE IF a1.videoRef = 0
                THEN Handled(StartFailed([a1 EXCEPT !.starts = RemoveAt(@, i)]), "startFailed")
              ELSE Handled([a1 EXCEPT !.starts[i].pc = "play",
                                      !.starts[i].stream = stream,
                                      !.starts[i].video = a1.videoRef], "getUserMedia")

StartFaults == {"none", "constructor", "render"}

\* video.play() settles: handleStart goes on to applyNativeZoom, and to its
\* end when that call returns without awaiting
PlaySettles(Outcomes, Causes) ==
  /\ app.mounted
  /\ \E i \in DOMAIN app.starts, resolved \in Outcomes, fault \in Causes :
       /\ app.starts[i].pc = "play"
       /\ LET desiredScale == app.settings.scale
              call == ZoomRequest(app, desiredScale)
              a1 == [app EXCEPT !.starts = RemoveAt(@, i)]
          IN  IF ~resolved THEN Handled(StartFailed(a1), "startFailed")
              ELSE IF call = NoZoomCall
                THEN LET a2 == StartFinish(ZoomUnsupported(a1, desiredScale), fault)
                     IN  Handled(a2, "startFinish")
              ELSE /\ fault = "none"
                   /\ Handled([app EXCEPT !.starts[i].pc = "zoom", !.starts[i].zoom = call],
                              "play")

\* the applyConstraints call of handleStart settles: handleStart runs to its end
StartZoomSettles(Outcomes, Causes) ==
  /\ app.mounted
  /\ \E i \in DOMAIN app.starts, resolved \in Outcomes, fault \in Causes :
       /\ app.starts[i].pc = "zoom"
       /\ LET a1 == ZoomSettled([app EXCEPT !.starts = RemoveAt(@, i)],
                                app.starts[i].zoom, resolved)
              a2 == StartFinish(a1, fault)
          IN  Handled(a2, "startFinish")

\* an applyConstraints call of the scale effect settles, in any order
ZoomSettles(Outcomes) ==
  /\ app.mounted
  /\ \E j \in DOMAIN app.zooms, resolved \in Outcomes :
       Handled(ZoomSettled([app EXCEPT !.zooms = RemoveAt(@, j)], app.zooms[j], resolved),
               "zoomSettled")

\* the browser runs a pending frame callback of one of App's renderers
AppFrame(Throws) ==
  /\ app.mounted
  /\ app.nextHandle <= MaxHandle
  /\ \E h \in app.rafQueue, throws \in Throws :
       Handled(RendererRender([app EXCEPT !.rafQueue = @ \ {h}], app.owner[h], throws),
               "frame")

\* ------------------------------------------------- App specifications
\* the page has not loaded yet: localStorage holds what an earlier visit left
InitApp(Items) ==
  /\ InitRenderer(LifecycleSizes, {2}, {defaultSettings})
  /\ app \in {UnmountedApp(item, AbsentItem, NoSaved, NoSavedPresets) : item \in Items}

\* persistence: the sliders k1 and k2, the preset slots, closing and loading
\* the page; an earlier version stored k1 and k2 as fractions of 1
LegacyItems ==
  {JsonStringify([k1 |-> 350, k2 |-> 200]), JsonStringify([k1 |-> 10, k2 |-> 0])}
KPatches ==
  {[field |-> "k1", value |-> v] : v \in {1000, 50000}}
    \cup {[field |-> "k2", value |-> v] : v \in {0}}
InitPersist == InitApp({AbsentItem, CorruptItem} \cup LegacyItems)
NextPersist ==
  \/ Mount({TRUE}, {FALSE}, {NoZoomCaps})
  \/ ApplyPresetClick({1})
  \/ SettingsButton
  \/ UpdateSettings(KPatches)
  \/ SavePresetClick({1})
  \/ Unload
SpecPersist == InitPersist /\ [][NextPersist]_vars

\* the overlays: every button, gesture, preset and timer event, the device
\* turned, a camera that starts
InitOverlay == InitApp({AbsentItem})
NextOverlay ==
  \/ Mount(BOOLEAN, {TRUE}, {NoZoomCaps})
  \/ OrientationChange
  \/ GetUserMediaSettles({TRUE})
  \/ PlaySettles({TRUE}, {"none"})
  \/ SettingsButton
  \/ ModeButton
  \/ Gesture
  \/ VrMenuPointerDown
  \/ VrMenuSettingsButton
  \/ ApplyPresetClick({1, 2})
  \/ StagePointerDown
  \/ SettingsTimeout
  \/ MenuTimeout
SpecOverlay == InitOverlay /\ [][NextOverlay]_vars

\* the camera: the device turned while handleStart calls are in flight,
\* every promise settling either way and in any order, frames that throw
InitCamera == InitApp({AbsentItem})
NextCamera ==
  \/ Mount(BOOLEAN, BOOLEAN, {NoZoomCaps, SteppedZoomCaps})
  \/ OrientationChange
  \/ GetUserMediaSettles(BOOLEAN)
  \/ PlaySettles(BOOLEAN, StartFaults)
  \/ StartZoomSettles(BOOLEAN, StartFaults)
  \/ ZoomSettles(BOOLEAN)
  \/ AppFrame(BOOLEAN)
SpecCamera == InitCamera /\ [][NextCamera]_vars

\* the zoom: the scale slider moved while applyConstraints calls are in
\* flight, the calls settling either way and in any order, the device turned
ScalePatches == {[field |-> "scale", value |-> v] : v \in {1000, 2000}}
InitZoom == InitApp({AbsentItem})
NextZoom ==
  \/ Mount({TRUE}, {TRUE}, {NoZoomCaps, SteppedZoomCaps})
  \/ OrientationChange
  \/ GetUserMediaSettles({TRUE})
  \/ PlaySettles({TRUE}, {"none"})
  \/ StartZoomSettles(BOOLEAN, {"none"})
  \/ ZoomSettles(BOOLEAN)
  \/ ApplyPresetClick({1})
  \/ SettingsButton
  \/ UpdateSettings(ScalePatches)
SpecZoom == InitZoom /\ [][NextZoom]_vars

\* ---------------------------------------------------------------------
\* C28: a settings value the UI can produce (k1 and k2 whole numbers in
\* 0..100) that was stored when the page closed is read back by the next
\* load with the same k1 and k2, in the settings and in every preset slot;
\* and normalizeSettings applied to the settings it returned to that load
\* returns them unchanged.
UiProducible(s) ==
  /\ s.k1 \in {1000 * n : n \in 0..100}
  /\ s.k2 \in {1000 * n : n \in 0..100}

C28_SettingsRoundTrip ==
  /\ (app.mounted /\ app.op = "mount" /\ app.saved.known /\ UiProducible(app.saved.settings))
       => /\ app.settings.k1 = app.saved.settings.k1
          /\ app.settings.k2 = app.saved.settings.k2
  /\ (app.mounted /\ app.op = "mount" /\ app.savedPresets.known)
       => \A i \in DOMAIN app.presetSlots :
            UiProducible(app.savedPresets.presetSlots[i])
              => /\ app.presetSlots[i].k1 = app.savedPresets.presetSlots[i].k1
                 /\ app.presetSlots[i].k2 = app.savedPresets.presetSlots[i].k2
  /\ (app.mounted /\ app.op = "mount" /\ app.loaded)
       => normalizeSettings(app.settings) = app.settings

\* ---------------------------------------------------------------------
\* C30: after every button, gesture, preset and timer event, once the
\* effects have run: while the startup menu is visible neither the settings
\* panel nor the VR menu is visible, and the settings panel and the VR menu
\* are never visible together.
C30_OverlaysExclusive ==
  app.mounted =>
    /\ app.startupMenuVisible => (~app.settingsVisible /\ ~app.vrMenuVisible)
    /\ ~(app.settingsVisible /\ app.vrMenuVisible)

\* ---------------------------------------------------------------------
\* C21: whatever start, stop and orientation events App handles, no two
\* GLRenderer instances are bound to the same canvas element, and no two
\* instances have a frame callback pending at the same time.
C21_OneRendererPerCanvas ==
  app.mounted =>
    \A i \in DOMAIN app.renderers, j \in DOMAIN app.renderers :
      i # j => /\ app.renderers[i].canvas # app.renderers[j].canvas
               /\ ~(i \in Pending(app) /\ j \in Pending(app))

\* a second renderer draws on the canvas of a later landscape period, after
\* the first one was stopped and dropped
C21_Witness ==
  /\ app.mounted
  /\ Len(app.renderers) >= 2
  /\ app.rendererRef = Len(app.renderers)
  /\ app.rendererRef \in Pending(app)
  /\ app.isRunning

\* ---------------------------------------------------------------------
\* C27: whenever no handleStart call is in flight and isRunning is false,
\* every stream handleStart acquired has its tracks stopped; and while two
\* handleStart calls overlap, every acquired stream is the one in streamRef
\* or is stopped.
C27_NoStreamLeak ==
  app.mounted =>
    /\ (app.starts = <<>> /\ ~app.isRunning)
         => \A s \in DOMAIN app.streams : ~app.streams[s].live
    /\ Len(app.starts) >= 2
         => \A s \in DOMAIN app.streams : s = app.streamRef \/ ~app.streams[s].live

\* ---------------------------------------------------------------------
\* C29: whenever no applyNativeZoom call is in flight and the camera runs,
\* effectiveScale x opticalZoom is max(1, settings.scale), in whatever order
\* the overlapping calls completed; and once handleStop has run and no call
\* is in flight, opticalZoom is 1 and effectiveScale is settings.scale.
NoZoomInFlight ==
  /\ app.zooms = <<>>
  /\ \A i \in DOMAIN app.starts : app.starts[i].pc # "zoom"

C29_ZoomSettlesOnLatest ==
  app.mounted =>
    /\ (NoZoomInFlight /\ app.isRunning)
         => app.effectiveScale * app.opticalZoom = Max2(1000, app.settings.scale) * 1000
    /\ (app.stopped /\ app.starts = <<>> /\ app.zooms = <<>>)
         => /\ app.opticalZoom = 1000
            /\ app.effectiveScale = app.settings.scale

====
